---- MODULE Spec2Model ----
(***************************************************************************)
(* Model of the canvas particle simulation of assets/modules/particles.js  *)
(* (first definition of initParticleCanvas, lines 13-547).                 *)
(*                                                                         *)
(* Numbers.  JavaScript doubles are modelled in fixed point: particle      *)
(* positions, velocities and sizes are integers counting 1/FP pixel,       *)
(* life is an integer counting 1/LifeOne, angles are milliradians.  Mouse  *)
(* coordinates (clientX / clientY) and the canvas size are whole pixels.   *)
(* Math.random() is modelled as Rand(seed, k) / RandDen, where the seed is *)
(* chosen nondeterministically for each handler run and k tells the calls  *)
(* of one run apart.                                                       *)
(*                                                                         *)
(* Rendering (Particle.draw, colors, colorCache, rotation, scale) writes   *)
(* only fields that no other code reads and is left out.                   *)
(***************************************************************************)
EXTENDS Integers, Sequences, FiniteSets, TLC

(***************************************************************************)
(* Bounds of the model.                                                    *)
(***************************************************************************)
\* config.maxParticles is 100 in the source (line 29); the model runs the
\* same code with a small cap so that the cap is reached.
maxParticles == 7
\* lifeDecay is multiplied by DecayScale so that a particle's whole life
\* (333..555 frames in the source) fits in MaxTime frames: a particle is
\* retired by its first or second update.
DecayScale == 400
\* frames executed at most (the counter `time` is unbounded in the source)
MaxTime == 3
\* input events, resizes, visibility changes and stop() calls at most
MaxEvents == 3
\* resolution of the fixed point arithmetic: relative velocities below
\* VelocityStep thousandths of a pixel per frame are lost in the rounding of
\* the products
VelocityStep == 10

\* versions of the site deployed while the model runs
MaxVersion == 2

\* the cap of the earlier particle systems: config.maxParticles = 120 of
\* part_010, MAX_PARTICLES = 40 and 250 of scripts.js
MAX_PARTICLES == 6

\* frames a particle of the earlier systems lives
SparkLife == 2

\* frames the earlier systems run, and the longest array the spawn events
\* between two frames build up
MaxFrames == 5

MaxBacklog == 9

\* the longest queue of pending collision spawns a frame starts with (the
\* source lets it grow to config.maxParticles - 2 = 98 entries)
MaxQueue == 6

\* mousedown and mousemove events on a page with part_010 or part_011; its
\* frames are counted up to MaxFrames
MaxSceneEvents == 2

(***************************************************************************)
(* Fixed point units.                                                      *)
(***************************************************************************)
FP == 1000
LifeOne == 10000
RandDen == 4
PiMilli == 3142
HalfPiMilli == 1571
TwoPiMilli == 6283

(***************************************************************************)
(* config (lines 28-52), in fixed point.                                   *)
(***************************************************************************)
gravity == 8
frictionNum == 9975
frictionDen == 10000
groundFriction == 965
bounciness == 600
maxVelocity == 8000
cursorFieldRadius == 100000
cursorFieldForce == 250
cursorMomentumTransfer == 120
spawnRadius == 20000
clickSpawnCount == 4
dragSpawnDistance == 16
collisionSpawnChance == 350
maxCollisionSpawns == 2
\* mouse sentinel (lines 78-86, 500-501)
OffCanvas == -1000

\* config.maxParticles of an instance created with options.maxParticles =
\* opts on a canvas with data-max-particles = data: the literal of line 29
\* (no variant reads `options` or canvas.dataset)
effectiveMaxParticles(opts, data) == maxParticles

(***************************************************************************)
(* Arithmetic helpers standing for the double operations of the source.    *)
(***************************************************************************)
Abs(a) == IF a < 0 THEN -a ELSE a
Min(a, b) == IF a < b THEN a ELSE b
Max(a, b) == IF a > b THEN a ELSE b

\* a / b rounded toward zero (symmetric in the sign of a), b > 0
Quot(a, b) == IF a >= 0 THEN a \div b ELSE -((-a) \div b)

\* a * num / den
Scale(a, num, den) == Quot(a * num, den)

RECURSIVE SqrtIter(_, _)
SqrtIter(n, x) ==
  LET y == (x + n \div x) \div 2
  IN IF y >= x THEN x ELSE SqrtIter(n, y)

\* Math.sqrt on a non-negative integer: floor of the square root
Sqrt(n) == IF n <= 0 THEN 0 ELSE IF n < 4 THEN 1 ELSE SqrtIter(n, n \div 2)

\* Math.sqrt(a * a + b * b), scaled down first when the squares would not
\* fit 32 bits
Hypot(a, b) ==
  IF Max(Abs(a), Abs(b)) > 30000
  THEN IF Max(Abs(a), Abs(b)) > 3000000
       THEN 1000 * Sqrt(Quot(a, 1000) * Quot(a, 1000) + Quot(b, 1000) * Quot(b, 1000))
       ELSE 100 * Sqrt(Quot(a, 100) * Quot(a, 100) + Quot(b, 100) * Quot(b, 100))
  ELSE Sqrt(a * a + b * b)

\* Math.sin / Math.cos of an angle in milliradians, result in 1/FP:
\* range reduction to [-pi/2, pi/2], then the Taylor polynomial to x^7
SinReduced(a) ==
  LET a2 == Quot(a * a, FP)
      a3 == Quot(a2 * a, FP)
      a5 == Quot(a3 * a2, FP)
      a7 == Quot(a5 * a2, FP)
  IN a - Quot(a3, 6) + Quot(a5, 120) - Quot(a7, 5040)

Sin(angle) ==
  LET m == angle % TwoPiMilli
      a == IF m > PiMilli THEN m - TwoPiMilli ELSE m
  IN IF a > HalfPiMilli THEN SinReduced(PiMilli - a)
     ELSE IF a < -HalfPiMilli THEN SinReduced(-PiMilli - a)
     ELSE SinReduced(a)

Cos(angle) == Sin(angle + HalfPiMilli)

\* The k-th Math.random() of a handler run with the given seed, as a
\* numerator over RandDen (0 <= Rand < RandDen, so the value is in [0, 1))
Rand(seed, k) ==
  ((seed + 1) * (k + 1) + seed * k * k + (seed \div 4) * (k \div 3)) % RandDen

\* lo + Math.random() * span
RandRange(seed, k, lo, span) == lo + (Rand(seed, k) * span) \div RandDen

\* the Math.random() sequences tried for each handler run; with seed 7 two
\* particles of a click burst collide hard enough to explode
Seeds == {0, 7}

(***************************************************************************)
(* class Particle (lines 94-308).                                          *)
(***************************************************************************)
\* constructor (lines 95-97): a new object, only `active` is set.  The
\* field id is the object's identity; the other fields stand for
\* `undefined` until init runs.
ParticleNew(id) ==
  [id |-> id, active |-> FALSE, type |-> "cube", x |-> 0, y |-> 0, vx |-> 0, vy |-> 0,
   size |-> 0, mass |-> 0, lifeDecay |-> 0, life |-> 0, grounded |-> FALSE]

\* init(x, y, color, type, intensity) (lines 99-152); m is the mouse
\* object, whose smoothed velocity the launch inherits
ParticleInit(p, x, y, type, intensity, m, seed, k) ==
  LET sizeVariant == RandRange(seed, k, 0, 1000)
      cubeBase == IF sizeVariant < 300 THEN RandRange(seed, k + 1, 2500, 2000)
                  ELSE IF sizeVariant < 800 THEN RandRange(seed, k + 1, 4000, 3000)
                  ELSE RandRange(seed, k + 1, 6000, 3000)
      size == IF type = "dust" THEN RandRange(seed, k + 1, 800, 1500)
              ELSE cubeBase + Scale(intensity, 12, 10)
      mass == IF type = "dust" THEN 150 ELSE 300 + Scale(size, 25, 1000)
      lifeDecay == IF type = "dust" THEN DecayScale * RandRange(seed, k + 2, 250, 100)
                   ELSE DecayScale * RandRange(seed, k + 2, 18, 12)
      angle == RandRange(seed, k + 3, 0, TwoPiMilli)
      speed == IF type = "dust" THEN RandRange(seed, k + 4, 100, 300)
               ELSE RandRange(seed, k + 4, 150, 250)
      vx == IF type = "dust" THEN Scale(Cos(angle), speed, FP)
            ELSE Scale(Cos(angle), speed, FP) + Scale(m.vx, 6, 100)
      vy == IF type = "dust" THEN Scale(Sin(angle), speed, FP) - 100
            ELSE Scale(Sin(angle), speed, FP) - 80 + Scale(m.vy, 6, 100)
  IN [id |-> p.id, active |-> TRUE, type |-> type, x |-> x, y |-> y, vx |-> vx, vy |-> vy,
      size |-> size, mass |-> mass, lifeDecay |-> lifeDecay, life |-> LifeOne,
      grounded |-> FALSE]

\* life decay that takes nothing
AgedLifeFrozen(p) == p.life

\* update, life decay (lines 158-160)
AgedLife(p) ==
  p.life - (IF p.grounded THEN Scale(p.lifeDecay, 14, 10) ELSE p.lifeDecay)

\* velocity cap (lines 178-184)
CapVelocity(vx, vy, speed) ==
  IF speed > maxVelocity
  THEN <<Scale(vx, maxVelocity, speed), Scale(vy, maxVelocity, speed)>>
  ELSE <<vx, vy>>

\* air friction on both components (lines 174-176), then the cap
Friction(vx, vy) ==
  CapVelocity(Scale(vx, frictionNum, frictionDen), Scale(vy, frictionNum, frictionDen),
              Hypot(Scale(vx, frictionNum, frictionDen), Scale(vy, frictionNum, frictionDen)))

\* update, gravity, air friction and velocity cap (lines 171-184):
\* the velocity <<vx, vy>> after them
CappedVelocity(p) == Friction(p.vx, p.vy + Scale(gravity, p.mass, FP))

\* Smoothstep falloff of the field (lines 196-198), dist in 1/FP pixel
Falloff(dist) ==
  LET t == FP - Scale(dist, FP, cursorFieldRadius)
  IN Scale(Scale(t, t, FP), 3 * FP - 2 * t, FP)

\* dynamicForce (lines 201-202); Math.min(cursorSpeed * 0.4, 0.6) is 0.6
\* as soon as one component of the cursor velocity reaches 1.5
DynamicForce(m) ==
  Scale(cursorFieldForce,
        400 + (IF Max(Abs(m.vx), Abs(m.vy)) >= 1500 THEN 600
               ELSE Min(Scale(Hypot(m.vx, m.vy), 4, 10), 600)),
        FP)

\* radial push and inherited cursor momentum along one axis (lines
\* 203-214): d is the particle's offset from the cursor on that axis and mv
\* the cursor velocity on it
FieldPush(d, dist, falloff, force, mv) ==
  Scale(Scale(Scale(d, FP, dist), force, FP), 8, 10)
    + Scale(Scale(mv, falloff, FP), cursorMomentumTransfer, FP)

FieldVelocity(dx, dy, dist, falloff, force, m) ==
  <<FieldPush(dx, dist, falloff, force, m.vx), FieldPush(dy, dist, falloff, force, m.vy)>>

\* the particle at offset (dx, dy) and distance dist from the cursor
FieldAt(dx, dy, dist, m) ==
  FieldVelocity(dx, dy, dist, Falloff(dist),
                Scale(Falloff(dist), DynamicForce(m), FP), m)

\* the field reaches the offset (dx, dy) (line 194); the squares are taken
\* in 1/100 pixel so that they fit 32 bits
InField(dx, dy) ==
  /\ Abs(dx) < cursorFieldRadius
  /\ Abs(dy) < cursorFieldRadius
  /\ Quot(dx, 10) * Quot(dx, 10) + Quot(dy, 10) * Quot(dy, 10)
       < (cursorFieldRadius \div 10) * (cursorFieldRadius \div 10)
  /\ Quot(dx, 10) * Quot(dx, 10) + Quot(dy, 10) * Quot(dy, 10) > 4 * 100 * 100

\* a force field that stays on while the button is held
CursorForceWhileDown(p, m) ==
  IF m.x > 0 /\ InField(p.x - m.x * FP, p.y - m.y * FP)
  THEN FieldAt(p.x - m.x * FP, p.y - m.y * FP,
               10 * Hypot(Quot(p.x - m.x * FP, 10), Quot(p.y - m.y * FP, 10)), m)
  ELSE <<0, 0>>

\* update, cursor as force field (lines 186-219): the velocity change
\* <<dvx, dvy>> the cursor gives the particle
CursorForce(p, m) ==
  IF m.x > 0 /\ ~m.isDown /\ InField(p.x - m.x * FP, p.y - m.y * FP)
  THEN FieldAt(p.x - m.x * FP, p.y - m.y * FP,
               10 * Hypot(Quot(p.x - m.x * FP, 10), Quot(p.y - m.y * FP, 10)), m)
  ELSE <<0, 0>>

\* side walls (lines 229-239); margin, w, h in 1/FP pixel
LeftWall(q, margin) ==
  IF q.x < margin
  THEN [q EXCEPT !.x = margin, !.vx = Scale(Abs(q.vx), bounciness, FP)]
  ELSE q

RightWall(q, margin, w) ==
  IF q.x > w - margin
  THEN [q EXCEPT !.x = w - margin, !.vx = -Scale(Abs(q.vx), bounciness, FP)]
  ELSE q

\* ceiling (lines 241-245)
Ceiling(q, margin) ==
  IF q.y < margin
  THEN [q EXCEPT !.y = margin, !.vy = Scale(Scale(Abs(q.vy), bounciness, FP), 5, 10)]
  ELSE q

\* smooth stop for micro-bounces (lines 254-259)
MicroBounce(q) ==
  IF Abs(q.vy) < 50
  THEN [q EXCEPT !.vy = 0, !.vx = Scale(q.vx, 97, 100)]
  ELSE q

\* a floor that bounces the particle without marking it grounded
FloorUnmarked(q, margin, h) ==
  IF q.y > h - margin
  THEN MicroBounce([q EXCEPT !.y = h - margin,
                             !.vy = -Scale(Abs(q.vy), bounciness, FP),
                             !.vx = Scale(q.vx, groundFriction, FP)])
  ELSE q

\* floor (lines 247-260)
Floor(q, margin, h) ==
  IF q.y > h - margin
  THEN MicroBounce([q EXCEPT !.y = h - margin,
                             !.vy = -Scale(Abs(q.vy), bounciness, FP),
                             !.vx = Scale(q.vx, groundFriction, FP),
                             !.grounded = TRUE])
  ELSE q

\* boundary collisions without the right wall and the floor
BoundariesOpen(q, w, h) ==
  Ceiling(LeftWall([q EXCEPT !.grounded = FALSE], Scale(q.size, 5, 10)),
          Scale(q.size, 5, 10))

\* update, boundary collisions (lines 225-260): q is the particle after
\* integration, w and h the canvas size in 1/FP pixel
Boundaries(q, w, h) ==
  Floor(Ceiling(RightWall(LeftWall([q EXCEPT !.grounded = FALSE],
                                   Scale(q.size, 5, 10)),
                          Scale(q.size, 5, 10), w),
                Scale(q.size, 5, 10)),
        Scale(q.size, 5, 10), h)

\* update, integration (lines 221-223) with the velocity v capped before
\* the cursor's push f is added
Integrate(p, life, v, f) ==
  [p EXCEPT !.life = life, !.vx = v[1] + f[1], !.vy = v[2] + f[2],
            !.x = p.x + v[1] + f[1], !.y = p.y + v[2] + f[2]]

\* update that keeps a particle whose life has run out
ParticleUpdateNoRetire(p, w, h, m) ==
  Boundaries(Integrate(p, AgedLife(p), CappedVelocity(p), CursorForce(p, m)),
             w * FP, h * FP)

\* update(w, h) (lines 154-265), w and h in whole pixels
ParticleUpdate(p, w, h, m) ==
  IF AgedLife(p) <= 0
  THEN [p EXCEPT !.life = AgedLife(p), !.active = FALSE]
  ELSE Boundaries(Integrate(p, AgedLife(p), CappedVelocity(p), CursorForce(p, m)),
                  w * FP, h * FP)

(***************************************************************************)
(* State.  The closure variables of initParticleCanvas, the part of the    *)
(* browser the code talks to, and the history the properties need.         *)
(***************************************************************************)
VARIABLES
  found,          \* qs(selector) matched an element (line 14)
  canvas,         \* [width, height] of the canvas element (lines 21-22)
  mouse,          \* the mouse object (lines 77-87)
  time,           \* frame counter (line 89)
  running,        \* line 90
  rafId,          \* line 91; 0 stands for null
  smooth,         \* [vx, vy]: smoothVx, smoothVy (lines 421-422)
  pool,           \* retired particles (line 311)
  active,         \* live particles (line 312)
  pendingSpawns,  \* queue of collision spawns (line 313)
  listeners,      \* browser: the listeners currently attached
  rafQueue,       \* browser: ids of the frame callbacks requested and not yet run
  rafCount,       \* browser: number of requestAnimationFrame calls so far
  win,            \* browser: [innerWidth, innerHeight]
  hidden,         \* browser: document.hidden
  gesture,        \* browser: "none" when no button is held, else where the
                  \* press landed: "canvas" or "interactive"
  options,        \* the page: options.maxParticles passed to
                  \* initParticleCanvas; 0 stands for no option
  dataset,        \* the page: data-max-particles of the canvas element;
                  \* 0 stands for no attribute
  constructed,    \* history: number of `new Particle()` so far
  events,         \* history: number of events delivered and stop() calls so far
  stopCalls,      \* history: number of stop() calls so far
  still,          \* history: the pointer has not moved since the last mousedown
  resumed         \* history: a pause with live particles has been resumed

\* The rest of the page: the mobile menu (modules/menu.js) and the service
\* worker (service-worker.js).
VARIABLES
  menu,           \* the attributes and the closure variables of initMobileMenu
  worker,         \* browser: life cycle of the service worker
  caches,         \* browser: CacheStorage, cache name -> (URL -> body cached)
  server,         \* the network: version of the site the server serves
  fetched         \* history: the last request of the page and its response

\* The earlier particle systems of the repository, which cap by eviction.
VARIABLES
  variant,        \* which script the page loads
  legacy,         \* the closure variables of that script
  drawn           \* history: the array of the last frame before the cap was
                  \* enforced and as the update loop got it, and the number of
                  \* frames so far

\* part_010 and part_011 with the geometry of their particles.
VARIABLES
  scene,          \* the closure variables of the script
  sceneEvents     \* history: mousedown and mousemove events so far

variantVars == <<variant, legacy, drawn, scene, sceneEvents>>

pageVars == <<menu, worker, caches, server, fetched, variantVars>>

vars == <<found, canvas, mouse, time, running, rafId, smooth, pool, active,
          pendingSpawns, listeners, rafQueue, rafCount, win, hidden, gesture,
          options, dataset, constructed, events, stopCalls, still, resumed,
          pageVars>>

\* what the code reads and writes, as one record the handlers transform
Cur ==
  [canvas |-> canvas, mouse |-> mouse, time |-> time, running |-> running,
   rafId |-> rafId, smooth |-> smooth, pool |-> pool, active |-> active,
   pendingSpawns |-> pendingSpawns, listeners |-> listeners,
   rafQueue |-> rafQueue, rafCount |-> rafCount, constructed |-> constructed]

Apply(s) ==
  /\ canvas' = s.canvas
  /\ mouse' = s.mouse
  /\ time' = s.time
  /\ running' = s.running
  /\ rafId' = s.rafId
  /\ smooth' = s.smooth
  /\ pool' = s.pool
  /\ active' = s.active
  /\ pendingSpawns' = s.pendingSpawns
  /\ listeners' = s.listeners
  /\ rafQueue' = s.rafQueue
  /\ rafCount' = s.rafCount
  /\ constructed' = s.constructed

\* inputs the environment chooses from
Points == {<<10, 20>>, <<20, 20>>, <<60, 20>>}
\* the points of the page covered by an interactive element (a button, a
\* link) that lies over the canvas
Buttons == {<<10, 20>>}
Viewports == {<<64, 48>>, <<0, 0>>}
\* the window size when the page loads
InitialViewport == <<64, 48>>
\* options.maxParticles and data-max-particles a page may give; 0 stands
\* for none
OptionValues == {0, 3}
DataValues == {0, 2}

(***************************************************************************)
(* Particle management (lines 310-361).                                    *)
(***************************************************************************)
\* getParticle reading the last pooled particle without removing it
getParticleNoPop(s, x, y, type, intensity, seed, k) ==
  [s |-> [s EXCEPT !.constructed = IF Len(s.pool) > 0 THEN @ ELSE @ + 1],
   p |-> ParticleInit(IF Len(s.pool) > 0 THEN s.pool[Len(s.pool)]
                      ELSE ParticleNew(s.constructed + 1),
                      x, y, type, intensity, s.mouse, seed, k)]

\* getParticle taking the particle that has been in the pool the longest
getParticleOldest(s, x, y, type, intensity, seed, k) ==
  [s |-> [s EXCEPT !.pool = IF Len(@) > 0 THEN Tail(@) ELSE @,
                   !.constructed = IF Len(s.pool) > 0 THEN @ ELSE @ + 1],
   p |-> ParticleInit(IF Len(s.pool) > 0 THEN Head(s.pool)
                      ELSE ParticleNew(s.constructed + 1),
                      x, y, type, intensity, s.mouse, seed, k)]

\* getParticle that constructs a Particle for every call and leaves the pool
\* alone
getParticleAlwaysNew(s, x, y, type, intensity, seed, k) ==
  [s |-> [s EXCEPT !.constructed = @ + 1],
   p |-> ParticleInit(ParticleNew(s.constructed + 1),
                      x, y, type, intensity, s.mouse, seed, k)]

\* getParticle (lines 315-318): the store after the call and the particle
\* returned
getParticle(s, x, y, type, intensity, seed, k) ==
  [s |-> [s EXCEPT !.pool = IF Len(@) > 0 THEN SubSeq(@, 1, Len(@) - 1) ELSE @,
                   !.constructed = IF Len(s.pool) > 0 THEN @ ELSE @ + 1],
   p |-> ParticleInit(IF Len(s.pool) > 0 THEN s.pool[Len(s.pool)]
                      ELSE ParticleNew(s.constructed + 1),
                      x, y, type, intensity, s.mouse, seed, k)]

\* active.push(getParticle(...)) (lines 328, 356): g is what getParticle
\* returned
pushActive(g) == [g.s EXCEPT !.active = Append(@, g.p)]

\* spawnExplosion, the particle placed at the given angle and radius around
\* (x, y) (lines 328-334)
spawnAround(s, x, y, angle, radius, intensity, seed, k) ==
  pushActive(getParticle(s, x + Scale(Cos(angle), radius, FP),
                         y + Scale(Sin(angle), radius, FP), "cube", intensity, seed, k))

\* body of the loop of spawnExplosion (lines 325-335), iterations i ..
RECURSIVE spawnExplosionLoop(_, _, _, _, _, _, _, _)
spawnExplosionLoop(s, x, y, actualCount, intensity, seed, k, i) ==
  IF i >= actualCount THEN s
  ELSE spawnExplosionLoop(
         spawnAround(s, x, y,
                     Quot(i * TwoPiMilli, actualCount) + RandRange(seed, k, 0, 400),
                     2 * FP + RandRange(seed, k + 1, 0, spawnRadius \div 2),
                     intensity + RandRange(seed, k + 2, 0, 300), seed, k + 3),
         x, y, actualCount, intensity, seed, k + 9, i + 1)

\* spawnExplosion without the cap of line 324
spawnExplosionUncapped(s, x, y, count, intensity, seed, k) ==
  spawnExplosionLoop(s, x, y, count, intensity, seed, k, 0)

\* spawnExplosion (lines 323-336); x and y in 1/FP pixel
spawnExplosion(s, x, y, count, intensity, seed, k) ==
  spawnExplosionLoop(s, x, y, Min(count, maxParticles - Len(s.active)),
                     intensity, seed, k, 0)

\* body of the loop of trySpawnOnDrag (lines 351-357), iterations i ..
RECURSIVE trySpawnOnDragLoop(_, _, _, _, _, _, _)
trySpawnOnDragLoop(s, dx, dy, steps, seed, k, i) ==
  IF ~(i < steps /\ Len(s.active) < maxParticles) THEN s
  ELSE trySpawnOnDragLoop(
         pushActive(getParticle(s,
           s.mouse.lastSpawnX * FP + Quot(dx * FP * (i + 1), steps)
             + RandRange(seed, k, -3 * FP, 6 * FP),
           s.mouse.lastSpawnY * FP + Quot(dy * FP * (i + 1), steps)
             + RandRange(seed, k + 1, -3 * FP, 6 * FP),
           "cube", 400, seed, k + 3)),
         dx, dy, steps, seed, k + 9, i + 1)

\* Math.min(Math.ceil(Math.sqrt(distSq) / dragSpawnDistance), 4) (line 349)
DragSteps(distSq) ==
  1 + Cardinality({n \in 1 .. 3 :
        n * n * dragSpawnDistance * dragSpawnDistance < distSq})

\* a trail that is spawned for any movement, however short
spawnTrailAnyDistance(s, dx, dy, seed, k) ==
  IF dx * dx + dy * dy = 0 THEN s
  ELSE [trySpawnOnDragLoop(s, dx, dy, DragSteps(dx * dx + dy * dy), seed, k, 0)
          EXCEPT !.mouse.lastSpawnX = s.mouse.x, !.mouse.lastSpawnY = s.mouse.y]

\* the trail spawned for a pointer that moved (dx, dy) since the last
\* spawn point (lines 344-360)
spawnTrail(s, dx, dy, seed, k) ==
  IF dx * dx + dy * dy < dragSpawnDistance * dragSpawnDistance THEN s
  ELSE [trySpawnOnDragLoop(s, dx, dy, DragSteps(dx * dx + dy * dy), seed, k, 0)
          EXCEPT !.mouse.lastSpawnX = s.mouse.x, !.mouse.lastSpawnY = s.mouse.y]

\* trySpawnOnDrag (lines 339-361)
trySpawnOnDrag(s, seed, k) ==
  IF ~s.mouse.isDown \/ s.mouse.x < 0 THEN s
  ELSE spawnTrail(s, s.mouse.x - s.mouse.lastSpawnX, s.mouse.y - s.mouse.lastSpawnY,
                  seed, k)

(***************************************************************************)
(* Collisions (lines 364-418).                                             *)
(***************************************************************************)
\* the overlap test at offset (dx, dy) for the minimum distance minDist
\* (line 380)
Closer(dx, dy, minDist) ==
  /\ Abs(dx) < minDist
  /\ Abs(dy) < minDist
  /\ dx * dx + dy * dy < minDist * minDist
  /\ dx * dx + dy * dy > 100000

\* the overlap test of a pair (lines 375-380)
Overlapping(a, b) ==
  Closer(b.x - a.x, b.y - a.y, Scale(a.size + b.size, 55, 100))

\* Separate whose momentum exchange changes the velocity of a alone
SeparateOneSided(a, b, nx, ny, sepX, sepY, impulse) ==
  [a |-> [a EXCEPT !.x = @ - sepX, !.y = @ - sepY,
                   !.vx = @ - Scale(impulse, nx, FP), !.vy = @ - Scale(impulse, ny, FP)],
   b |-> [b EXCEPT !.x = @ + sepX, !.y = @ + sepY],
   impulse |-> impulse]

\* separation (lines 385-393) and momentum exchange (lines 400-403) of the
\* pair along the normal (nx, ny)
Separate(a, b, nx, ny, sepX, sepY, impulse) ==
  [a |-> [a EXCEPT !.x = @ - sepX, !.y = @ - sepY,
                   !.vx = @ - Scale(impulse, nx, FP), !.vy = @ - Scale(impulse, ny, FP)],
   b |-> [b EXCEPT !.x = @ + sepX, !.y = @ + sepY,
                   !.vx = @ + Scale(impulse, nx, FP), !.vy = @ + Scale(impulse, ny, FP)],
   impulse |-> impulse]

\* CollideAlong with an impulse four times as strong (factor 1.2)
CollideAlongOvershoot(a, b, nx, ny, overlap) ==
  Separate(a, b, nx, ny,
           Scale(Scale(nx, overlap, FP), 35, 100),
           Scale(Scale(ny, overlap, FP), 35, 100),
           Scale(Quot((a.vx - b.vx) * nx + (a.vy - b.vy) * ny, FP), 12, 10))

\* the pair at distance dist with normal (nx, ny) (lines 386-398)
CollideAlong(a, b, nx, ny, overlap) ==
  Separate(a, b, nx, ny,
           Scale(Scale(nx, overlap, FP), 35, 100),
           Scale(Scale(ny, overlap, FP), 35, 100),
           Scale(Quot((a.vx - b.vx) * nx + (a.vy - b.vy) * ny, FP), 3, 10))

CollideAt(a, b, dx, dy, dist) ==
  CollideAlong(a, b, Scale(dx, FP, dist), Scale(dy, FP, dist),
               Scale(a.size + b.size, 55, 100) - dist)

\* separation and momentum exchange of an overlapping pair (lines 381-403):
\* the two particles after them and the impulse
Collide(a, b) ==
  CollideAt(a, b, b.x - a.x, b.y - a.y,
            Sqrt((b.x - a.x) * (b.x - a.x) + (b.y - a.y) * (b.y - a.y)))

\* the explosion test (lines 406-409)
Explodes(s, impulse, seed, k) ==
  /\ s.mouse.isDown
  /\ Abs(impulse) > 150
  /\ RandRange(seed, k, 0, 1000) < collisionSpawnChance
  /\ Len(s.active) + Len(s.pendingSpawns) < maxParticles

\* the pair (i, j) collided into c (lines 390-414)
collided(s, i, j, c, seed, k) ==
  [s EXCEPT !.active[i] = c.a, !.active[j] = c.b,
            !.pendingSpawns =
              IF Explodes(s, c.impulse, seed, k)
              THEN Append(@, [x |-> (c.a.x + c.b.x) \div 2,
                              y |-> (c.a.y + c.b.y) \div 2,
                              count |-> 1 + (Rand(seed, k + 1) * maxCollisionSpawns)
                                               \div RandDen])
              ELSE @]

\* body of the inner loop of handleCollisions for the pair (i, j)
\* (lines 372-415)
collidePair(s, i, j, seed, k) ==
  IF ~s.active[j].active \/ s.active[j].type = "dust" THEN s
  ELSE IF ~Overlapping(s.active[i], s.active[j]) THEN s
  ELSE collided(s, i, j, Collide(s.active[i], s.active[j]), seed, k)

\* the loops of handleCollisions from the pair (i, j) on, len being the
\* length of active when the function started (line 365)
RECURSIVE handleCollisionsLoop(_, _, _, _, _, _)
handleCollisionsLoop(s, len, i, j, seed, k) ==
  IF i > len THEN s
  ELSE IF j > len \/ ~s.active[i].active \/ s.active[i].type = "dust"
       THEN handleCollisionsLoop(s, len, i + 1, i + 2, seed, k)
       ELSE handleCollisionsLoop(collidePair(s, i, j, seed, k), len, i, j + 1, seed, k + 2)

\* handleCollisions (lines 364-418)
handleCollisions(s, seed, k) ==
  handleCollisionsLoop(s, Len(s.active), 1, 2, seed, k)

(***************************************************************************)
(* Animation loop (lines 420-475).                                         *)
(***************************************************************************)
\* processing of the pending collision spawns (lines 446-451)
RECURSIVE pendingSpawnsLoop(_, _, _, _)
pendingSpawnsLoop(s, spawnsThisFrame, seed, k) ==
  IF ~(Len(s.pendingSpawns) > 0 /\ Len(s.active) < maxParticles /\ spawnsThisFrame < 3)
  THEN s
  ELSE pendingSpawnsLoop(
         spawnExplosion([s EXCEPT !.pendingSpawns = Tail(@)],
                        Head(s.pendingSpawns).x, Head(s.pendingSpawns).y,
                        Head(s.pendingSpawns).count, 250, seed, k),
         spawnsThisFrame + 1, seed, k + 18)

\* a frame that leaves the queue as long as it is
capQueueOff(s) == s

\* cap of the queue (line 452)
capQueue(s) == [s EXCEPT !.pendingSpawns = IF Len(@) > 5 THEN SubSeq(@, 1, 5) ELSE @]

processPendingSpawns(s, seed, k) == capQueue(pendingSpawnsLoop(s, 0, seed, k))

\* retireOrKeep pushing a retired particle to the pool twice
retireOrKeepTwice(s, i, p) ==
  IF ~p.active
  THEN [s EXCEPT !.active = SubSeq(@, 1, i - 1) \o SubSeq(@, i + 1, Len(@)),
                 !.pool = Append(Append(@, p), p)]
  ELSE [s EXCEPT !.active[i] = p]

\* the particle at index i was updated into p (lines 468-473)
retireOrKeep(s, i, p) ==
  IF ~p.active
  THEN [s EXCEPT !.active = SubSeq(@, 1, i - 1) \o SubSeq(@, i + 1, Len(@)),
                 !.pool = Append(@, p)]
  ELSE [s EXCEPT !.active[i] = p]

\* the update loop (lines 464-474), from index i down to 1
RECURSIVE updateLoop(_, _, _, _)
updateLoop(s, w, h, i) ==
  IF i < 1 THEN s
  ELSE updateLoop(retireOrKeep(s, i, ParticleUpdate(s.active[i], w, h, s.mouse)),
                  w, h, i - 1)

\* requestAnimationFrame(animate) (line 427)
requestFrame(s) ==
  [s EXCEPT !.rafCount = @ + 1, !.rafId = s.rafCount + 1,
            !.rafQueue = @ \cup {s.rafCount + 1}]

\* smoothVx += (rawVx - smoothVx) * 0.3 (lines 437-438)
Ease(smoothV, rawV) == smoothV + Scale(rawV - smoothV, 3, 10)

setVelocity(s, svx, svy) ==
  [s EXCEPT !.smooth = [vx |-> svx, vy |-> svy], !.mouse.vx = svx, !.mouse.vy = svy]

\* animate, the smoothed cursor velocity (lines 435-440)
smoothVelocity(s) ==
  setVelocity(s, Ease(s.smooth.vx, (s.mouse.x - s.mouse.prevX) * FP),
              Ease(s.smooth.vy, (s.mouse.y - s.mouse.prevY) * FP))

\* time++ (line 432)
tick(s) == [s EXCEPT !.time = @ + 1]

\* update previous position (lines 455-456)
savePrevious(s) == [s EXCEPT !.mouse.prevX = s.mouse.x, !.mouse.prevY = s.mouse.y]

\* handle collisions every second frame (lines 459-461)
collideOnEvenFrames(s, seed) ==
  IF s.time % 2 = 0 THEN handleCollisions(s, seed, 100) ELSE s

\* update the particles (lines 464-474); the canvas size was read at
\* lines 429-430 and nothing in the frame changes it
updateAll(s) == updateLoop(s, s.canvas.width, s.canvas.height, Len(s.active))

\* animate up to the end of the spawns (lines 427-452)
spawnPhase(s, seed) ==
  processPendingSpawns(trySpawnOnDrag(smoothVelocity(tick(requestFrame(s))), seed, 0),
                       seed, 40)

\* animate (lines 425-475)
animate(s, seed) ==
  IF ~s.running THEN s
  ELSE updateAll(collideOnEvenFrames(savePrevious(spawnPhase(s, seed)), seed))

(***************************************************************************)
(* Event handlers (lines 477-518) and the handle (lines 530-546).          *)
(***************************************************************************)
\* onMouseDown whose burst has one particle more
onMouseDownExtra(s, e, seed) ==
  spawnExplosion([s EXCEPT !.mouse.isDown = TRUE,
                           !.mouse.x = e.clientX, !.mouse.y = e.clientY,
                           !.mouse.prevX = e.clientX, !.mouse.prevY = e.clientY,
                           !.mouse.lastSpawnX = e.clientX, !.mouse.lastSpawnY = e.clientY],
                 e.clientX * FP, e.clientY * FP, clickSpawnCount + 1, 500, seed, 0)

\* e is the event: [clientX, clientY, interactive, buttons]
onMouseDown(s, e, seed) ==
  spawnExplosion([s EXCEPT !.mouse.isDown = TRUE,
                           !.mouse.x = e.clientX, !.mouse.y = e.clientY,
                           !.mouse.prevX = e.clientX, !.mouse.prevY = e.clientY,
                           !.mouse.lastSpawnX = e.clientX, !.mouse.lastSpawnY = e.clientY],
                 e.clientX * FP, e.clientY * FP, clickSpawnCount, 500, seed, 0)

onMouseUp(s) == [s EXCEPT !.mouse.isDown = FALSE]

onMouseMove(s, e) == [s EXCEPT !.mouse.x = e.clientX, !.mouse.y = e.clientY]

onMouseLeave(s) ==
  [s EXCEPT !.mouse.x = OffCanvas, !.mouse.y = OffCanvas, !.mouse.isDown = FALSE]

onBlur(s) == [s EXCEPT !.mouse.isDown = FALSE]

\* cancelAnimationFrame behind `if (rafId)` (lines 513, 534)
cancelFrame(s) ==
  IF s.rafId # 0
  THEN [s EXCEPT !.rafQueue = @ \ {s.rafId}, !.rafId = 0]
  ELSE s

\* onVisibilityChange that does not pause the loop when the page is hidden
onVisibilityChangeNoPause(s, docHidden, seed) ==
  IF docHidden
  THEN [s EXCEPT !.mouse.isDown = FALSE]
  ELSE IF ~s.running
       THEN animate([s EXCEPT !.running = TRUE], seed)
       ELSE s

\* onVisibilityChange that runs a second frame on resume to catch up
onVisibilityChangeCatchUp(s, docHidden, seed) ==
  IF docHidden
  THEN cancelFrame([s EXCEPT !.mouse.isDown = FALSE, !.running = FALSE])
  ELSE IF ~s.running
       THEN animate(animate([s EXCEPT !.running = TRUE], seed), seed)
       ELSE s

\* docHidden is document.hidden when the handler runs
onVisibilityChange(s, docHidden, seed) ==
  IF docHidden
  THEN cancelFrame([s EXCEPT !.mouse.isDown = FALSE, !.running = FALSE])
  ELSE IF ~s.running
       THEN animate([s EXCEPT !.running = TRUE], seed)
       ELSE s

\* w is [innerWidth, innerHeight]
resizeCanvas(s, w) == [s EXCEPT !.canvas = [width |-> w[1], height |-> w[2]]]

\* the listeners attached by lines 25 and 521-526
AllListeners ==
  {"resizeCanvas", "onMouseMove", "onMouseDown", "onMouseUp", "onMouseLeave",
   "onBlur", "onVisibilityChange"}

\* stop forgetting the resize listener
StopRemovesNoResize ==
  {"onMouseMove", "onMouseDown", "onMouseUp", "onMouseLeave", "onBlur",
   "onVisibilityChange"}

\* the listeners removed by stop (lines 535-541)
StopRemoves ==
  {"onMouseMove", "onMouseDown", "onMouseUp", "onMouseLeave", "onBlur",
   "onVisibilityChange", "resizeCanvas"}

\* stop that does not empty the pool
stopKeepsPool(s) ==
  [cancelFrame([s EXCEPT !.running = FALSE, !.mouse.isDown = FALSE])
     EXCEPT !.listeners = @ \ StopRemoves, !.active = <<>>]

\* stop() of the handle returned for a canvas (lines 531-545)
stop(s) ==
  [cancelFrame([s EXCEPT !.running = FALSE, !.mouse.isDown = FALSE])
     EXCEPT !.listeners = @ \ StopRemoves, !.active = <<>>, !.pool = <<>>]

\* stop of the handle returned when there is no canvas (line 15)
inertStop(s) == s

(***************************************************************************)
(* initParticleCanvas (lines 13-528).                                      *)
(***************************************************************************)
\* nothing exists yet: no closure, no listener, no frame requested
Blank ==
  [canvas |-> [width |-> 0, height |-> 0],
   mouse |-> [x |-> OffCanvas, y |-> OffCanvas, prevX |-> OffCanvas, prevY |-> OffCanvas,
              vx |-> 0, vy |-> 0, isDown |-> FALSE,
              lastSpawnX |-> OffCanvas, lastSpawnY |-> OffCanvas],
   time |-> 0, running |-> FALSE, rafId |-> 0, smooth |-> [vx |-> 0, vy |-> 0],
   pool |-> <<>>, active |-> <<>>, pendingSpawns |-> <<>>,
   listeners |-> {}, rafQueue |-> {}, rafCount |-> 0, constructed |-> 0]

\* initParticleCanvas attaching the resize listener before it looks at the
\* canvas
initParticleCanvasEarlyListener(isFound, w, seed) ==
  IF ~isFound THEN [Blank EXCEPT !.listeners = {"resizeCanvas"}]
  ELSE animate([resizeCanvas(Blank, w) EXCEPT !.running = TRUE,
                                              !.listeners = AllListeners], seed)

\* isFound: the selector matches an element; w: the window size
initParticleCanvas(isFound, w, seed) ==
  IF ~isFound THEN Blank
  ELSE animate([resizeCanvas(Blank, w) EXCEPT !.running = TRUE,
                                              !.listeners = AllListeners], seed)

(***************************************************************************)
(* The particle systems that cap by eviction: src/unnamed/part_010 and the *)
(* two of assets/scripts.js (lines 205-289 and 431-641).  A particle is    *)
(* [born, life]: born numbers the particles in the order they were         *)
(* spawned, counting from the oldest that is left when a frame ends.       *)
(* Where a particle is and how fast it moves has no part in                *)
(* what the array holds; what depends on it (how many cubes a drag trail   *)
(* spawns, how many pairs collide) is an input of the frame.               *)
(***************************************************************************)
Variants == {"part_010", "scripts.js:206", "scripts.js:432"}

\* part_010 keeps the discarded particles in a pool (lines 181-187)
Pooled(v) == v = "part_010"

\* the state when the script has run: no particle, no button held
LegacyStart ==
  [particles |-> <<>>, pool |-> 0, born |-> 0, isDown |-> FALSE, frameCounter |-> 0]

\* nothing drawn yet
NothingDrawn == [before |-> <<>>, kept |-> <<>>, frames |-> 0]

\* particles.push(new Particle(...)), active.push(getParticle(...)): getParticle
\* takes a pooled object when there is one
pushParticle(v, s) ==
  [s EXCEPT !.particles = Append(@, [born |-> s.born + 1, life |-> SparkLife]),
            !.born = @ + 1,
            !.pool = IF Pooled(v) /\ @ > 0 THEN @ - 1 ELSE @]

\* n pushes in a row: createParticleBurst (scripts.js lines 210-216),
\* createSpark (part_010 lines 226-231), spawnAlongPath (part_010 lines 192-223)
RECURSIVE pushParticles(_, _, _)
pushParticles(v, s, n) ==
  IF n = 0 THEN s ELSE pushParticles(v, pushParticle(v, s), n - 1)

\* n pushes, each only while the array is shorter than limit: checkCollisions
\* (part_010 lines 254-256), the spawn of scripts.js lines 612-617
RECURSIVE pushWhileBelow(_, _, _, _)
pushWhileBelow(v, s, n, limit) ==
  IF n = 0 THEN s
  ELSE pushWhileBelow(v, IF Len(s.particles) < limit THEN pushParticle(v, s) ELSE s,
                      n - 1, limit)

\* 5 + Math.floor(Math.random() * 4) (scripts.js line 211)
BurstCounts == 5 .. 8

\* 3 + (Math.random() * 3) | 0 (part_010 line 227)
SparkCounts == 3 .. 5

\* cubes a frame of part_010 spawns along the path, and pairs of cubes its
\* collision pass finds
TrailCounts == 0 .. 2

DustCounts == 0 .. 1

\* the spawns of a frame before the cap is enforced: scripts.js lines
\* 262-268, scripts.js lines 607-618, part_010 lines 282-310; trail and dust
\* are the inputs of part_010, which counts its frames in `time`
spawnStage(v, s, trail, dust) ==
  IF v = "scripts.js:206"
  THEN IF ~s.isDown THEN s
       ELSE IF (s.frameCounter + 1) % 15 = 0
       THEN pushParticle(v, [s EXCEPT !.frameCounter = @ + 1])
       ELSE [s EXCEPT !.frameCounter = @ + 1]
  ELSE IF v = "scripts.js:432"
  THEN IF ~s.isDown THEN s
       ELSE IF (s.frameCounter + 1) % 3 = 0
       THEN pushWhileBelow(v, [s EXCEPT !.frameCounter = @ + 1], 2, MAX_PARTICLES)
       ELSE [s EXCEPT !.frameCounter = @ + 1]
  ELSE pushWhileBelow(v,
         (IF s.isDown /\ (s.frameCounter + 1) % 2 = 0
          THEN pushParticles(v, [s EXCEPT !.frameCounter = @ + 1], trail)
          ELSE [s EXCEPT !.frameCounter = @ + 1]),
         IF (s.frameCounter + 1) % 5 = 0 THEN dust ELSE 0,
         MAX_PARTICLES - 2)

\* while (particles.length > MAX_PARTICLES) particles.shift() (scripts.js
\* lines 271-273); part_010 pushes what it removes to the pool (lines 314-318)
RECURSIVE evictShift(_, _)
evictShift(v, s) ==
  IF Len(s.particles) > MAX_PARTICLES
  THEN evictShift(v, [s EXCEPT !.particles = Tail(@),
                               !.pool = IF Pooled(v) THEN @ + 1 ELSE @])
  ELSE s

\* particles = particles.slice(particles.length - MAX_PARTICLES) (scripts.js
\* lines 620-623)
evictSlice(s) ==
  IF Len(s.particles) > MAX_PARTICLES
  THEN [s EXCEPT !.particles =
          SubSeq(@, Len(@) - MAX_PARTICLES + 1, Len(@))]
  ELSE s

\* a cap that discards from the back of the array
evictNewest(v, s) ==
  IF Len(s.particles) > MAX_PARTICLES
  THEN [s EXCEPT !.particles = SubSeq(@, 1, MAX_PARTICLES)]
  ELSE s

\* the particles numbered again from 1 in the order they have, which is all
\* that `born` stands for
renumbered(s) ==
  [s EXCEPT !.particles = [i \in 1 .. Len(@) |-> [@[i] EXCEPT !.born = i]],
            !.born = Len(s.particles)]

\* the cap of the variant
evict(v, s) == IF v = "scripts.js:432" THEN evictSlice(s) ELSE evictShift(v, s)

\* update and draw, from the back (scripts.js lines 276-285 and 626-635,
\* part_010 lines 321-331): a particle whose life has run out is spliced out
RECURSIVE updateAndDraw(_, _, _)
updateAndDraw(v, s, i) ==
  IF i < 1 THEN s
  ELSE updateAndDraw(v,
         (IF s.particles[i].life - 1 <= 0
          THEN [s EXCEPT !.particles = SubSeq(@, 1, i - 1) \o SubSeq(@, i + 1, Len(@)),
                         !.pool = IF Pooled(v) THEN @ + 1 ELSE @]
          ELSE [s EXCEPT !.particles[i].life = @ - 1]),
         i - 1)

(***************************************************************************)
(* The mobile menu (modules/menu.js, src/unnamed/part_009).                *)
(***************************************************************************)
\* the page as served: the menu closed, nothing focused
MenuClosed ==
  [ariaExpanded |-> "false", ariaLabel |-> "Abrir menu", active |-> FALSE,
   ariaHidden |-> "true", lastFocus |-> "null", untrap |-> FALSE, traps |-> 0,
   focus |-> "body"]

\* openMenu (lines 37-48): untrap is the cleanup trapFocus returned, traps
\* the number of keydown listeners trapFocus has attached
openMenu(m) ==
  [m EXCEPT !.ariaExpanded = "true", !.ariaLabel = "Cerrar menu",
            !.active = TRUE, !.ariaHidden = "false",
            !.lastFocus = m.focus, !.focus = "link",
            !.untrap = TRUE, !.traps = @ + 1]

\* closeMenu that leaves aria-hidden as it is
closeMenuStillShown(m) ==
  [m EXCEPT !.ariaExpanded = "false", !.ariaLabel = "Abrir menu",
            !.active = FALSE,
            !.focus = IF m.lastFocus # "null" THEN m.lastFocus ELSE @,
            !.untrap = FALSE, !.traps = IF m.untrap THEN @ - 1 ELSE @]

\* closeMenu (lines 50-58)
closeMenu(m) ==
  [m EXCEPT !.ariaExpanded = "false", !.ariaLabel = "Abrir menu",
            !.active = FALSE, !.ariaHidden = "true",
            !.focus = IF m.lastFocus # "null" THEN m.lastFocus ELSE @,
            !.untrap = FALSE, !.traps = IF m.untrap THEN @ - 1 ELSE @]

\* click listener of the button (lines 60-63)
onMenuBtnClick(m) ==
  IF m.ariaExpanded = "true" THEN closeMenu(m) ELSE openMenu(m)

\* click listener of the list (lines 65-67); target is what was clicked
onNavLinksClick(m, target) ==
  IF target = "link" THEN closeMenu(m) ELSE m

\* keydown listener of the document (lines 69-73)
onDocumentKeydown(m, key) ==
  IF key = "Escape" /\ m.active THEN closeMenu(m) ELSE m

\* click listener of the document (lines 76-80): the list contains its
\* links, the button contains itself
onDocumentClick(m, target) ==
  IF target \notin {"link", "list", "menuBtn"} THEN closeMenu(m) ELSE m

\* what a click can land on, and the keys of interest
ClickTargets == {"menuBtn", "link", "list", "outside"}

Keys == {"Escape", "Enter"}

\* a click at target: the browser focuses a focusable target, then the
\* listeners run from the target up to the document
click(m, target) ==
  onDocumentClick(
    (IF target = "menuBtn" THEN onMenuBtnClick([m EXCEPT !.focus = "menuBtn"])
     ELSE IF target = "link" THEN onNavLinksClick([m EXCEPT !.focus = "link"], target)
     ELSE IF target = "list" THEN onNavLinksClick(m, target)
     ELSE [m EXCEPT !.focus = "body"]),
    target)

(***************************************************************************)
(* The service worker (service-worker.js).                                 *)
(***************************************************************************)
CACHE_NAME == "manrado-v1"

\* a cache an earlier version of the worker left behind
OldCache == "manrado-v0"

\* self.location.origin, an origin whose text starts with it, and a third
\* party; a URL is <<origin, path>> and an origin a sequence of pieces
Origin == <<"https://manrado.com">>

Lookalike == <<"https://manrado.com", ".example.org">>

ThirdParty == <<"https://www.googletagmanager.com">>

Origins == {Origin, Lookalike, ThirdParty}

\* the entries of urlsToCache the model follows (lines 7-19)
urlsToCache == {"/index.html", "/assets/scripts.js"}

Paths == urlsToCache \cup {"/reportes/index.html"}

Methods == {"GET", "POST"}

\* the network answers 200, answers 404, or cannot be reached
Outcomes == {"ok", "missing", "offline"}

\* String.prototype.startsWith on the pieces (line 49)
startsWith(url, prefix) ==
  Len(url) >= Len(prefix) /\ SubSeq(url, 1, Len(prefix)) = prefix

\* no response: `undefined` from caches.match, or a network error
NoResponse == [status |-> 0, type |-> "error", body |-> 0]

\* what fetch(request) resolves to; srv is the version the server serves
networkResponse(req, outcome, srv) ==
  IF outcome = "offline" THEN NoResponse
  ELSE [status |-> IF outcome = "ok" THEN 200 ELSE 404,
        type |-> IF req.origin = Origin THEN "basic" ELSE "cors",
        body |-> srv]

\* the cache names in the order caches.match searches them (creation order)
CacheOrder == <<OldCache, CACHE_NAME>>

\* caches.match(request) over the caches from index i on (line 65)
RECURSIVE cachesMatchFrom(_, _, _)
cachesMatchFrom(cs, url, i) ==
  IF i > Len(CacheOrder) THEN NoResponse
  ELSE IF CacheOrder[i] \in DOMAIN cs /\ url \in DOMAIN cs[CacheOrder[i]]
  THEN cs[CacheOrder[i]][url]
  ELSE cachesMatchFrom(cs, url, i + 1)

cachesMatch(cs, url) == cachesMatchFrom(cs, url, 1)

\* the entries of the cache called name, none if there is no such cache
entries(cs, name) == IF name \in DOMAIN cs THEN cs[name] ELSE <<>>

\* caches.open(name).then(cache => cache.put(url, response)) (lines 57-59):
\* open creates the cache if it does not exist
cachePut(cs, name, url, response) ==
  [n \in DOMAIN cs \cup {name} |->
     IF n = name
     THEN [u \in DOMAIN entries(cs, name) \cup {url} |->
             IF u = url THEN response ELSE cs[name][u]]
     ELSE cs[n]]

\* cache.addAll(urlsToCache) (lines 24-25), every request answered 200 by
\* version srv of the site
cacheAddAll(cs, name, srv) ==
  [n \in DOMAIN cs \cup {name} |->
     IF n = name
     THEN [u \in DOMAIN entries(cs, name) \cup {<<Origin, p>> : p \in urlsToCache} |->
             IF u[2] \in urlsToCache /\ u[1] = Origin
             THEN [status |-> 200, type |-> "basic", body |-> srv]
             ELSE cs[name][u]]
     ELSE cs[n]]

\* a handler whose filter is name === CACHE_NAME
activateInverted(cs) == [n \in DOMAIN cs \ {CACHE_NAME} |-> cs[n]]

\* the activate handler (lines 31-41): every cache with another name deleted
activate(cs) == [n \in DOMAIN cs \cap {CACHE_NAME} |-> cs[n]]

\* the fetch handler handles the request (lines 46-49)
intercepts(req) == req.method = "GET" /\ startsWith(req.origin, Origin)

\* the first callback of the handler (lines 53-62): the caches after it
cacheOnSuccess(cs, req, response) ==
  IF response.status = 200 /\ response.type = "basic"
  THEN cachePut(cs, CACHE_NAME, <<req.origin, req.path>>, response)
  ELSE cs

\* a handler that answers from the cache whenever the cache has the URL
respondCacheFirst(cs, req, outcome, srv) ==
  IF cachesMatch(cs, <<req.origin, req.path>>) # NoResponse
  THEN [caches |-> cs, response |-> cachesMatch(cs, <<req.origin, req.path>>),
        cacheRead |-> TRUE]
  ELSE [caches |-> cacheOnSuccess(cs, req, networkResponse(req, outcome, srv)),
        response |-> networkResponse(req, outcome, srv), cacheRead |-> TRUE]

\* event.respondWith(...) (lines 51-67): the caches after the handler, the
\* response the page gets, and whether the caches were searched
respond(cs, req, outcome, srv) ==
  IF outcome # "offline"
  THEN [caches |-> cacheOnSuccess(cs, req, networkResponse(req, outcome, srv)),
        response |-> networkResponse(req, outcome, srv), cacheRead |-> FALSE]
  ELSE [caches |-> cs, response |-> cachesMatch(cs, <<req.origin, req.path>>),
        cacheRead |-> TRUE]

\* no request yet
NoFetch ==
  [intercepted |-> FALSE, request |-> [method |-> "none", origin |-> <<>>, path |-> ""],
   outcome |-> "none", network |-> NoResponse, response |-> NoResponse,
   cacheRead |-> FALSE, cached |-> NoResponse]

(***************************************************************************)
(* The earlier particle systems with the geometry of their particles: the  *)
(* dwell-time system of part_010 and the elegant system of part_011.  The  *)
(* closure of either script is one record: the canvas size, the frame      *)
(* counter, the mouse object, the pool, the active array and the number of *)
(* Particle objects constructed.                                           *)
(***************************************************************************)
Scenes == {"part_010", "part_011"}

\* where the visitor presses the button (two pixels from the right edge of
\* the canvas and further inside) and where the cursor moves
ScenePresses == {<<60, 20>>}
SceneMoves == {<<20, 20>>, <<60, 20>>}

\* the closure when the script has run in a window of w[1] x w[2] pixels: the
\* first animate() has counted one frame on an empty array
SceneStart(w) ==
  [w |-> w[1], h |-> w[2], time |-> 1,
   mouse |-> [x |-> OffCanvas, y |-> OffCanvas, prevX |-> OffCanvas, prevY |-> OffCanvas,
              vx |-> 0, vy |-> 0, isDown |-> FALSE, dwellTime |-> 0,
              lastSpawnX |-> OffCanvas, lastSpawnY |-> OffCanvas],
   pool |-> <<>>, active |-> <<>>, made |-> 0]

\* no such script on the page
NoScene == SceneStart(<<0, 0>>)

\* constructor of either class (part_010 lines 68-71, part_011 lines 101-104)
SceneParticleNew(id) ==
  [id |-> id, active |-> FALSE, type |-> "cube", x |-> 0, y |-> 0, vx |-> 0, vy |-> 0,
   size |-> 0, mass |-> 0, lifeDecay |-> 0, life |-> 0, grounded |-> FALSE,
   phase |-> 0, amplitude |-> 0, frequency |-> 0]

\* the object getParticle hands to init: the last of the pool, or a new one
\* (part_010 lines 184-187, part_011 lines 292-295)
SceneTake(s) ==
  IF Len(s.pool) > 0 THEN s.pool[Len(s.pool)] ELSE SceneParticleNew(s.made + 1)

\* active.push(getParticle(...)) with the initialized particle p
ScenePush(s, p) ==
  [s EXCEPT !.pool = IF Len(@) > 0 THEN SubSeq(@, 1, Len(@) - 1) ELSE @,
            !.made = IF Len(s.pool) > 0 THEN @ ELSE @ + 1,
            !.active = Append(@, p)]

\* the particle at index i was updated into p: the splice and the push to
\* the pool of the update loops (part_010 lines 323-331, part_011 lines
\* 416-426)
SceneRetireOrKeep(s, i, p) ==
  IF ~p.active
  THEN [s EXCEPT !.active = SubSeq(@, 1, i - 1) \o SubSeq(@, i + 1, Len(@)),
                 !.pool = Append(@, p)]
  ELSE [s EXCEPT !.active[i] = p]

(***************************************************************************)
(* part_010: particles spawned along the cursor path, sparks on a quick    *)
(* click, dust on collisions.                                              *)
(***************************************************************************)
\* Particle.init (part_010 lines 73-121); intensity in 1/FP
dwellInit(p, x, y, type, intensity, seed, k) ==
  LET size == IF type = "dust" THEN RandRange(seed, k, 1500, 2000)
              ELSE IF type = "spark" THEN RandRange(seed, k, 2000, 3000)
              ELSE RandRange(seed, k, 3000, 4000) + 2 * intensity
      lifeDecay == IF type = "dust" THEN RandRange(seed, k + 1, 300, 200)
                   ELSE IF type = "spark" THEN 250
                   ELSE 80 + Scale(FP - intensity \div 2, 100, FP)
      angle == RandRange(seed, k + 5, 0, TwoPiMilli)
      speed == IF type = "dust" THEN RandRange(seed, k + 6, 500, 1500)
               ELSE RandRange(seed, k + 6, 1500, 2000)
  IN [id |-> p.id, active |-> TRUE, type |-> type, x |-> x, y |-> y,
      vx |-> IF type = "cube" THEN RandRange(seed, k + 5, -400, 800)
             ELSE Scale(Cos(angle), speed, FP),
      vy |-> IF type = "cube" THEN -200 - RandRange(seed, k + 6, 0, 500)
             ELSE Scale(Sin(angle), speed, FP),
      size |-> size, mass |-> 0, lifeDecay |-> lifeDecay, life |-> LifeOne,
      grounded |-> FALSE,
      phase |-> RandRange(seed, k + 2, 0, TwoPiMilli),
      amplitude |-> RandRange(seed, k + 3, 50, 150),
      frequency |-> RandRange(seed, k + 4, 10, 20)]

\* update, the oscillating drift (part_010 lines 130-133); t is the frame
\* counter
dwellDrift(p, t) ==
  [p EXCEPT !.vx = Scale(@, 98, 100)
                     + Scale(Scale(Sin(t * p.frequency + p.phase), p.amplitude, FP), 5, 100),
            !.vy = Scale(@, 98, 100)
                     + Scale(Scale(Cos(Scale(t * p.frequency, 7, 10) + p.phase),
                                   p.amplitude, FP), 3, 100)]

\* update, the soft boundaries (part_010 lines 135-140); w and h in 1/FP
dwellBounds(p, w, h) ==
  [p EXCEPT !.x = IF p.x + p.size > w THEN w - p.size
                  ELSE IF p.x - p.size < 0 THEN p.size ELSE @,
            !.vx = IF p.x + p.size > w \/ p.x - p.size < 0 THEN Scale(@, -3, 10) ELSE @,
            !.y = IF p.y + p.size > h THEN h - p.size
                  ELSE IF p.y - p.size < 0 THEN p.size ELSE @,
            !.vy = IF p.y + p.size > h \/ p.y - p.size < 0 THEN Scale(@, -3, 10) ELSE @]

\* update, the integration (part_010 lines 142-143)
dwellMove(p) == [p EXCEPT !.x = @ + p.vx, !.y = @ + p.vy]

\* update whose boundary block comes after the integration
dwellUpdateClampLast(p, w, h, t) ==
  IF p.life - p.lifeDecay <= 0
  THEN [p EXCEPT !.life = @ - p.lifeDecay, !.active = FALSE]
  ELSE dwellBounds(dwellMove(dwellDrift([p EXCEPT !.life = @ - p.lifeDecay], t)),
                   w * FP, h * FP)

\* Particle.update(w, h, t) (part_010 lines 123-144); w and h in pixels
dwellUpdate(p, w, h, t) ==
  IF p.life - p.lifeDecay <= 0
  THEN [p EXCEPT !.life = @ - p.lifeDecay, !.active = FALSE]
  ELSE dwellMove(dwellBounds(dwellDrift([p EXCEPT !.life = @ - p.lifeDecay], t),
                             w * FP, h * FP))

\* active.push(getParticle(x, y, randomColor(), type, intensity))
dwellSpawn(s, x, y, type, intensity, seed, k) ==
  ScenePush(s, dwellInit(SceneTake(s), x, y, type, intensity, seed, k))

\* the loop of createSpark (part_010 lines 228-230), iterations i ..
RECURSIVE dwellSparkLoop(_, _, _, _, _, _)
dwellSparkLoop(s, x, y, count, seed, i) ==
  IF i >= count THEN s
  ELSE dwellSparkLoop(dwellSpawn(s, x, y, "spark", 500, seed, 1 + 9 * i),
                      x, y, count, seed, i + 1)

\* createSpark (part_010 lines 226-231): 3 + (Math.random() * 3) | 0 sparks
createSpark(s, x, y, seed) ==
  dwellSparkLoop(s, x, y, 3 + (Rand(seed, 0) * 3) \div RandDen, seed, 0)

\* the loop of spawnAlongPath (part_010 lines 206-217), iterations i ..
RECURSIVE spawnAlongPathLoop(_, _, _, _, _, _, _, _, _)
spawnAlongPathLoop(s, x1, y1, dx, dy, steps, intensity, seed, i) ==
  IF i > steps THEN s
  ELSE spawnAlongPathLoop(
         IF RandRange(seed, 11 * i, 0, FP) < 400 + Scale(intensity, 3, 10)
         THEN dwellSpawn(s,
                x1 * FP + Quot(dx * FP * i, steps) + RandRange(seed, 11 * i + 1, -3000, 6000),
                y1 * FP + Quot(dy * FP * i, steps) + RandRange(seed, 11 * i + 2, -3000, 6000),
                "cube", Scale(intensity, 7, 10), seed, 11 * i + 3)
         ELSE s,
         x1, y1, dx, dy, steps, intensity, seed, i + 1)

\* Math.ceil(dist / step) for dist and step in 1/FP pixel
CeilDiv(dist, step) == (dist + step - 1) \div step

\* spawnAlongPath (part_010 lines 190-218); the points in pixels
spawnAlongPath(s, x1, y1, x2, y2, intensity, seed) ==
  IF x1 = x2 /\ y1 = y2
  THEN IF RandRange(seed, 0, 0, FP) < 300 + Scale(intensity, 4, 10)
       THEN dwellSpawn(s, x2 * FP + RandRange(seed, 1, -5000, 10000),
                       y2 * FP + RandRange(seed, 2, -5000, 10000),
                       "cube", intensity, seed, 3)
       ELSE s
  ELSE spawnAlongPathLoop(s, x1, y1, x2 - x1, y2 - y1,
                          CeilDiv(Hypot((x2 - x1) * FP, (y2 - y1) * FP),
                                  Max(8000, 20000 - 10 * intensity)),
                          intensity, seed, 0)

\* animate, the dwell time (part_010 lines 281-291): the cursor is within 5
\* pixels of the last spawn or not
dwellTimeNext(m) ==
  IF (m.x - m.lastSpawnX) * (m.x - m.lastSpawnX)
       + (m.y - m.lastSpawnY) * (m.y - m.lastSpawnY) < 25
  THEN Min(m.dwellTime + 20, FP)
  ELSE Max(m.dwellTime - 50, 100)

\* animate, the spawn along the path on every second frame (lines 293-298)
dwellSpawnOnEvenFrames(s, seed) ==
  IF s.time % 2 = 0
  THEN [spawnAlongPath(s, s.mouse.prevX, s.mouse.prevY, s.mouse.x, s.mouse.y,
                       s.mouse.dwellTime, seed)
          EXCEPT !.mouse.lastSpawnX = s.mouse.x, !.mouse.lastSpawnY = s.mouse.y]
  ELSE s

\* animate up to the update of the previous position (part_010 lines 276-303)
dwellSpawnStage(s, seed) ==
  IF s.mouse.isDown /\ s.mouse.x > 0
  THEN dwellSpawnOnEvenFrames([s EXCEPT !.mouse.dwellTime = dwellTimeNext(s.mouse)], seed)
  ELSE s

\* the pair (a, b) of checkCollisions overlaps (part_010 lines 245-250)
dwellOverlapping(a, b) ==
  /\ Abs(a.x - b.x) < Scale(a.size + b.size, 8, 10)
  /\ Abs(a.y - b.y) < Scale(a.size + b.size, 8, 10)
  /\ (a.x - b.x) * (a.x - b.x) + (a.y - b.y) * (a.y - b.y)
       < Scale(a.size + b.size, 8, 10) * Scale(a.size + b.size, 8, 10)
  /\ (a.x - b.x) * (a.x - b.x) + (a.y - b.y) * (a.y - b.y) > 0

\* the push of 0.3 along (nx, ny) (part_010 lines 261-268)
dwellPushApart(s, i, j, nx, ny) ==
  [s EXCEPT !.active[i].vx = @ + Scale(nx, 300, FP),
            !.active[i].vy = @ + Scale(ny, 300, FP),
            !.active[j].vx = @ - Scale(nx, 300, FP),
            !.active[j].vy = @ - Scale(ny, 300, FP)]

\* the pair (i, j) collides: dust at the midpoint while there is room, then
\* the push (part_010 lines 251-268)
dwellCollide(s, i, j, dist, seed, k) ==
  dwellPushApart(
    IF Len(s.active) < MAX_PARTICLES - 2
    THEN dwellSpawn(s, (s.active[i].x + s.active[j].x) \div 2,
                    (s.active[i].y + s.active[j].y) \div 2, "dust", 300, seed, k)
    ELSE s,
    i, j, Scale(s.active[i].x - s.active[j].x, FP, dist),
    Scale(s.active[i].y - s.active[j].y, FP, dist))

\* the loops of checkCollisions from the pair (i, j) on (part_010 lines
\* 235-270), len being the length of active when the function started
RECURSIVE checkCollisionsLoop(_, _, _, _, _, _)
checkCollisionsLoop(s, len, i, j, seed, k) ==
  IF i > len THEN s
  ELSE IF j > len \/ ~s.active[i].active \/ s.active[i].type = "dust"
       THEN checkCollisionsLoop(s, len, i + 1, i + 2, seed, k)
       ELSE checkCollisionsLoop(
              IF s.active[j].active /\ s.active[j].type # "dust"
                 /\ dwellOverlapping(s.active[i], s.active[j])
              THEN dwellCollide(s, i, j,
                     Hypot(s.active[i].x - s.active[j].x, s.active[i].y - s.active[j].y),
                     seed, k)
              ELSE s,
              len, i, j + 1, seed, k + 9)

\* checkCollisions on every fifth frame (part_010 lines 305-308)
checkCollisions(s, seed) ==
  IF s.time % 5 = 0 THEN checkCollisionsLoop(s, Len(s.active), 1, 2, seed, 50) ELSE s

\* the particle limit (part_010 lines 310-315)
RECURSIVE dwellEnforceLimit(_)
dwellEnforceLimit(s) ==
  IF Len(s.active) <= MAX_PARTICLES THEN s
  ELSE dwellEnforceLimit([s EXCEPT !.active = Tail(@),
                                   !.pool = Append(@, [Head(s.active) EXCEPT !.active = FALSE])])

\* the update loop (part_010 lines 318-331), from index i down to 1
RECURSIVE dwellUpdateLoop(_, _)
dwellUpdateLoop(s, i) ==
  IF i < 1 THEN s
  ELSE dwellUpdateLoop(SceneRetireOrKeep(s, i, dwellUpdate(s.active[i], s.w, s.h, s.time)),
                       i - 1)

dwellUpdateAll(s) == dwellUpdateLoop(s, Len(s.active))

\* animate (part_010 lines 272-332): time++, the spawns, the previous
\* position, the collisions, the limit, the update loop
dwellAnimate(s, seed) ==
  dwellUpdateAll(
    dwellEnforceLimit(
      checkCollisions(
        savePrevious(dwellSpawnStage([s EXCEPT !.time = @ + 1], seed)), seed)))

\* onMouseDown (part_010 lines 337-346)
dwellOnMouseDown(s, e) ==
  [s EXCEPT !.mouse.isDown = TRUE, !.mouse.x = e[1], !.mouse.y = e[2],
            !.mouse.prevX = e[1], !.mouse.prevY = e[2],
            !.mouse.lastSpawnX = e[1], !.mouse.lastSpawnY = e[2],
            !.mouse.dwellTime = 200]

\* onMouseUp (part_010 lines 348-358); quick is clickDuration < 150
dwellOnMouseUp(s, quick, seed) ==
  [(IF quick /\ s.mouse.x > 0
    THEN createSpark(s, s.mouse.x * FP, s.mouse.y * FP, seed) ELSE s)
     EXCEPT !.mouse.isDown = FALSE, !.mouse.dwellTime = 0]

(***************************************************************************)
(* part_011: few, slow cubes; config of lines 29-58 in fixed point.        *)
(***************************************************************************)
minSize == 3000
maxSize == 8000
elegantGravity == 3
elegantFrictionNum == 997
elegantGroundFriction == 990
elegantBounciness == 300
elegantMaxVelocity == 1500
cursorPushRadius == 120000
cursorPushForce == 80
elegantClickSpawnCount == 3
elegantDragSpawnDistance == 40

\* Particle.init whose size goes up to minSize + maxSize
elegantInitOversized(p, x, y, seed, k) ==
  LET size == RandRange(seed, k, minSize, maxSize)
      angle == RandRange(seed, k + 2, 0, TwoPiMilli)
      speed == RandRange(seed, k + 3, 100, 200)
  IN [id |-> p.id, active |-> TRUE, type |-> "cube", x |-> x, y |-> y,
      vx |-> Scale(Cos(angle), speed, FP),
      vy |-> Scale(Sin(angle), speed, FP) - 50,
      size |-> size, mass |-> 800 + Scale(size, 2, 100),
      lifeDecay |-> DecayScale * RandRange(seed, k + 1, 8, 4), life |-> LifeOne,
      grounded |-> FALSE, phase |-> 0, amplitude |-> 0, frequency |-> 0]

\* Particle.init (part_011 lines 106-136); every caller passes 'cube'
elegantInit(p, x, y, seed, k) ==
  LET size == RandRange(seed, k, minSize, maxSize - minSize)
      angle == RandRange(seed, k + 2, 0, TwoPiMilli)
      speed == RandRange(seed, k + 3, 100, 200)
  IN [id |-> p.id, active |-> TRUE, type |-> "cube", x |-> x, y |-> y,
      vx |-> Scale(Cos(angle), speed, FP),
      vy |-> Scale(Sin(angle), speed, FP) - 50,
      size |-> size, mass |-> 800 + Scale(size, 2, 100),
      lifeDecay |-> DecayScale * RandRange(seed, k + 1, 8, 4), life |-> LifeOne,
      grounded |-> FALSE, phase |-> 0, amplitude |-> 0, frequency |-> 0]

\* update, the life decay (part_011 lines 143-144)
elegantAged(p) ==
  p.life - (IF p.grounded THEN Scale(p.lifeDecay, 12, 10) ELSE p.lifeDecay)

\* update, gravity and air friction (part_011 lines 156-160)
elegantDrag(p) ==
  [p EXCEPT !.vx = Scale(@, elegantFrictionNum, FP),
            !.vy = Scale(@ + Scale(elegantGravity, p.mass, FP), elegantFrictionNum, FP)]

\* update, the velocity cap (part_011 lines 163-168)
elegantCap(p, speed) ==
  IF speed > elegantMaxVelocity
  THEN [p EXCEPT !.vx = Scale(@, elegantMaxVelocity, speed),
                 !.vy = Scale(@, elegantMaxVelocity, speed)]
  ELSE p

elegantCapped(p) == elegantCap(p, Hypot(p.vx, p.vy))

\* the push of the cursor at distance dist along (nx, ny) with the given
\* force (part_011 lines 184-196)
elegantPushAlong(p, nx, ny, force) ==
  [p EXCEPT !.vx = @ + Scale(nx, force, FP) - Scale(Scale(ny, force, FP), 3, 10),
            !.vy = @ + Scale(ny, force, FP) + Scale(Scale(nx, force, FP), 3, 10)]

\* t * t * t * cursorPushForce for t = 1 - dist / radius (part_011 lines
\* 179-185)
elegantForce(t) == Scale(Scale(Scale(t, t, FP), t, FP), cursorPushForce, FP)

elegantPushAt(p, dx, dy, dist) ==
  IF dist < cursorPushRadius /\ dist > FP
  THEN elegantPushAlong(p, Scale(dx, FP, dist), Scale(dy, FP, dist),
                        elegantForce(FP - Scale(dist, FP, cursorPushRadius)))
  ELSE p

\* update, the cursor as a guide while the button is up (part_011 lines
\* 172-200); m is the mouse object
elegantCursor(p, m) ==
  IF m.x > 0 /\ ~m.isDown
  THEN elegantPushAt(p, p.x - m.x * FP, p.y - m.y * FP,
                     Hypot(p.x - m.x * FP, p.y - m.y * FP))
  ELSE p

\* update, the integration (part_011 lines 203-204)
elegantMove(p) == [p EXCEPT !.x = @ + p.vx, !.y = @ + p.vy, !.grounded = FALSE]

\* update, the side walls (part_011 lines 211-218); margin = size * 0.5
elegantLeftWall(p) ==
  IF p.x < p.size \div 2
  THEN [p EXCEPT !.x = p.size \div 2, !.vx = Scale(Abs(@), elegantBounciness, FP)]
  ELSE p

elegantRightWall(p, w) ==
  IF p.x > w - p.size \div 2
  THEN [p EXCEPT !.x = w - p.size \div 2, !.vx = -Scale(Abs(@), elegantBounciness, FP)]
  ELSE p

elegantWalls(p, w) == elegantRightWall(elegantLeftWall(p), w)

\* update, the ceiling (part_011 lines 221-224)
elegantCeiling(p) ==
  IF p.y < p.size \div 2
  THEN [p EXCEPT !.y = p.size \div 2,
                 !.vy = Scale(Scale(Abs(@), elegantBounciness, FP), 3, 10)]
  ELSE p

\* the quick settle (part_011 lines 234-237)
elegantSettle(vy) == IF Abs(vy) < 20 THEN 0 ELSE vy

\* update, the floor (part_011 lines 227-238)
elegantFloor(p, h) ==
  IF p.y > h - p.size \div 2
  THEN [p EXCEPT !.y = h - p.size \div 2,
                 !.vy = elegantSettle(-Scale(Abs(@), elegantBounciness, FP)),
                 !.vx = Scale(@, elegantGroundFriction, FP),
                 !.grounded = TRUE]
  ELSE p

\* Particle.update(w, h) (part_011 lines 138-243); w and h in pixels, m the
\* mouse object
elegantUpdate(p, w, h, m) ==
  IF elegantAged(p) <= 0
  THEN [p EXCEPT !.life = elegantAged(p), !.active = FALSE]
  ELSE elegantFloor(elegantCeiling(elegantWalls(
         elegantMove(elegantCursor(
           elegantCapped(elegantDrag([p EXCEPT !.life = elegantAged(p)])), m)),
         w * FP)), h * FP)

\* active.push(getParticle(x, y, randomColor(), 'cube', 0.3))
elegantSpawn(s, x, y, seed, k) ==
  ScenePush(s, elegantInit(SceneTake(s), x, y, seed, k))

\* the loop of spawnBurst (part_011 lines 301-312), iterations i ..
RECURSIVE spawnBurstLoop(_, _, _, _, _, _)
spawnBurstLoop(s, x, y, count, seed, i) ==
  IF ~(i < count /\ Len(s.active) < MAX_PARTICLES) THEN s
  ELSE spawnBurstLoop(
         elegantSpawn(s,
           x + Scale(Cos(Quot(i * TwoPiMilli, count) + RandRange(seed, 9 * i, 0, 500)),
                     RandRange(seed, 9 * i + 1, 5000, 15000), FP),
           y + Scale(Sin(Quot(i * TwoPiMilli, count) + RandRange(seed, 9 * i, 0, 500)),
                     RandRange(seed, 9 * i + 1, 5000, 15000), FP),
           seed, 9 * i + 2),
         x, y, count, seed, i + 1)

\* spawnBurst (part_011 lines 300-313); x and y in 1/FP pixel
spawnBurst(s, x, y, count, seed) == spawnBurstLoop(s, x, y, count, seed, 0)

\* trySpawnOnDrag (part_011 lines 316-334)
elegantTrySpawnOnDrag(s, seed) ==
  IF ~s.mouse.isDown \/ s.mouse.x < 0 THEN s
  ELSE IF (s.mouse.x - s.mouse.lastSpawnX) * (s.mouse.x - s.mouse.lastSpawnX)
            + (s.mouse.y - s.mouse.lastSpawnY) * (s.mouse.y - s.mouse.lastSpawnY)
            < elegantDragSpawnDistance * elegantDragSpawnDistance
       THEN s
       ELSE [(IF Len(s.active) < MAX_PARTICLES
              THEN elegantSpawn(s, s.mouse.x * FP + RandRange(seed, 0, -5000, 10000),
                                s.mouse.y * FP + RandRange(seed, 1, -5000, 10000), seed, 2)
              ELSE s)
               EXCEPT !.mouse.lastSpawnX = s.mouse.x, !.mouse.lastSpawnY = s.mouse.y]

\* the pair (a, b) of handleCollisions overlaps (part_011 lines 348-353)
elegantOverlapping(a, b) ==
  /\ Abs(b.x - a.x) < (a.size + b.size) \div 2
  /\ Abs(b.y - a.y) < (a.size + b.size) \div 2
  /\ (b.x - a.x) * (b.x - a.x) + (b.y - a.y) * (b.y - a.y)
       < ((a.size + b.size) \div 2) * ((a.size + b.size) \div 2)
  /\ (b.x - a.x) * (b.x - a.x) + (b.y - a.y) * (b.y - a.y) > 10000

\* the velocity of a relative to b along (nx, ny), times restitution 0.15
\* (part_011 lines 366-371)
elegantImpulse(a, b, nx, ny) ==
  IF (a.vx - b.vx) * nx + (a.vy - b.vy) * ny > 0
  THEN Scale(Quot((a.vx - b.vx) * nx + (a.vy - b.vy) * ny, FP), 15, 100)
  ELSE 0

\* the pair (i, j) separated by overlap along (nx, ny), and the soft
\* velocity exchange (part_011 lines 359-377)
elegantSeparate(s, i, j, nx, ny, overlap, impulse) ==
  [s EXCEPT !.active[i].x = @ - Scale(nx, overlap, FP),
            !.active[i].y = @ - Scale(ny, overlap, FP),
            !.active[j].x = @ + Scale(nx, overlap, FP),
            !.active[j].y = @ + Scale(ny, overlap, FP),
            !.active[i].vx = @ - Scale(impulse, nx, FP),
            !.active[i].vy = @ - Scale(impulse, ny, FP),
            !.active[j].vx = @ + Scale(impulse, nx, FP),
            !.active[j].vy = @ + Scale(impulse, ny, FP)]

elegantCollideAlong(s, i, j, nx, ny, dist) ==
  elegantSeparate(s, i, j, nx, ny,
                  Scale((s.active[i].size + s.active[j].size) \div 2 - dist, 3, 10),
                  elegantImpulse(s.active[i], s.active[j], nx, ny))

\* the pair (i, j) at distance dist (part_011 lines 354-377)
elegantCollide(s, i, j, dist) ==
  elegantCollideAlong(s, i, j, Scale(s.active[j].x - s.active[i].x, FP, dist),
                      Scale(s.active[j].y - s.active[i].y, FP, dist), dist)

\* the loops of handleCollisions from the pair (i, j) on (part_011 lines
\* 337-381)
RECURSIVE elegantCollisionsLoop(_, _, _, _)
elegantCollisionsLoop(s, len, i, j) ==
  IF i > len THEN s
  ELSE IF j > len \/ ~s.active[i].active
       THEN elegantCollisionsLoop(s, len, i + 1, i + 2)
       ELSE elegantCollisionsLoop(
              IF s.active[j].active /\ elegantOverlapping(s.active[i], s.active[j])
              THEN elegantCollide(s, i, j,
                     Hypot(s.active[j].x - s.active[i].x, s.active[j].y - s.active[i].y))
              ELSE s,
              len, i, j + 1)

elegantHandleCollisions(s) == elegantCollisionsLoop(s, Len(s.active), 1, 2)

\* the update loop (part_011 lines 416-427), from index i down to 1
RECURSIVE elegantUpdateLoop(_, _)
elegantUpdateLoop(s, i) ==
  IF i < 1 THEN s
  ELSE elegantUpdateLoop(
         SceneRetireOrKeep(s, i, elegantUpdate(s.active[i], s.w, s.h, s.mouse)), i - 1)

elegantUpdateAll(s) == elegantUpdateLoop(s, Len(s.active))

\* animate, the smoothed cursor velocity (part_011 lines 396-402)
elegantSmooth(s) ==
  [s EXCEPT !.mouse.vx = @ + Scale((s.mouse.x - s.mouse.prevX) * FP - @, 4, 10),
            !.mouse.vy = @ + Scale((s.mouse.y - s.mouse.prevY) * FP - @, 4, 10)]

\* animate (part_011 lines 387-428)
elegantAnimate(s, seed) ==
  elegantUpdateAll(
    elegantHandleCollisions(
      savePrevious(elegantTrySpawnOnDrag(elegantSmooth([s EXCEPT !.time = @ + 1]), seed))))

\* onMouseDown (part_011 lines 430-441)
elegantOnMouseDown(s, e, seed) ==
  spawnBurst([s EXCEPT !.mouse.isDown = TRUE, !.mouse.x = e[1], !.mouse.y = e[2],
                       !.mouse.prevX = e[1], !.mouse.prevY = e[2],
                       !.mouse.lastSpawnX = e[1], !.mouse.lastSpawnY = e[2]],
             e[1] * FP, e[2] * FP, elegantClickSpawnCount, seed)

\* onMouseUp (part_011 lines 443-445)
elegantOnMouseUp(s) == [s EXCEPT !.mouse.isDown = FALSE]

\* onMouseMove of either script (part_010 lines 360-363, part_011 lines
\* 447-450)
sceneOnMouseMove(s, e) == [s EXCEPT !.mouse.x = e[1], !.mouse.y = e[2]]

\* the menu and the worker as the browser loads the page: the menu closed,
\* the worker script not yet installed, the cache of an earlier worker still
\* there
SiteLoaded ==
  /\ menu = MenuClosed
  /\ worker = "parsed"
  /\ caches = [n \in {OldCache} |->
                 [u \in {<<Origin, "/index.html">>} |->
                    [status |-> 200, type |-> "basic", body |-> 0]]]
  /\ server = 1
  /\ fetched = NoFetch

\* the page of the repository: its particle system is modules/particles.js
PageLoaded ==
  /\ SiteLoaded
  /\ variant = "modules"
  /\ legacy = LegacyStart
  /\ drawn = NothingDrawn
  /\ scene = NoScene
  /\ sceneEvents = 0

(***************************************************************************)
(* The state machine: the page calls initParticleCanvas once, then the     *)
(* browser delivers events and runs frame callbacks in any order, and the  *)
(* page may call stop() of the handle at any time.                         *)
(***************************************************************************)
\* the closure of an instance in a window of size w of a document whose
\* `hidden` is hid; backlog is what collision passes have left in the queue of
\* pending spawns (empty when initParticleCanvas has just returned)
ConstructedWith(w, hid, backlog) ==
  /\ found \in BOOLEAN
  /\ win = w
  /\ hidden = hid
  /\ gesture = "none"
  /\ events = 0
  /\ stopCalls = 0
  /\ still = FALSE
  /\ resumed = FALSE
  /\ \E seed \in Seeds :
       \E s \in {initParticleCanvas(found, win, seed)} :
          /\ canvas = s.canvas
          /\ mouse = s.mouse
          /\ time = s.time
          /\ running = s.running
          /\ rafId = s.rafId
          /\ smooth = s.smooth
          /\ pool = s.pool
          /\ active = s.active
          /\ pendingSpawns = s.pendingSpawns \o backlog
          /\ listeners = s.listeners
          /\ rafQueue = s.rafQueue
          /\ rafCount = s.rafCount
          /\ constructed = s.constructed

\* the state when initParticleCanvas has returned, in a window of size w of a
\* document whose `hidden` is hid: no line of initParticleCanvas reads
\* document.hidden, line 528 calls animate() in either case
ConstructedIn(w, hid) ==
  ConstructedWith(w, hid, <<>>)


\* the page is loaded in the tab the visitor looks at
ConstructedAt(w) ==
  ConstructedIn(w, FALSE)

\* the page is loaded in a window of the usual size
Constructed ==
  ConstructedAt(InitialViewport)

\* the page of the repository calls initParticleCanvas('#particle-canvas')
\* with no options, on a canvas without data attributes
Init ==
  /\ options = 0
  /\ dataset = 0
  /\ Constructed
  /\ PageLoaded

\* a page that passes options.maxParticles, sets data-max-particles, both or
\* neither
InitConfig ==
  /\ options \in OptionValues
  /\ dataset \in DataValues
  /\ Constructed
  /\ PageLoaded

\* the page is loaded in a window of any size, one without area included
\* (resizeCanvas, lines 20-25, gives the canvas the size of the window)
InitSurface ==
  /\ options = 0
  /\ dataset = 0
  /\ \E w \in Viewports : ConstructedAt(w)
  /\ PageLoaded

\* the browser runs a requested frame callback
Frame ==
  /\ time < MaxTime
  /\ \E id \in rafQueue, seed \in Seeds :
       Apply(animate([Cur EXCEPT !.rafQueue = @ \ {id}], seed))
  /\ UNCHANGED <<pageVars, found, options, dataset, win, hidden, gesture, events, stopCalls,
                 still, resumed>>

\* a button goes down at pt, on an interactive element if one covers pt and
\* on the canvas otherwise
MouseDown ==
  /\ gesture = "none"
  /\ \E pt \in Points, seed \in Seeds :
       /\ gesture' = IF pt \in Buttons THEN "interactive" ELSE "canvas"
       /\ still' = TRUE
       /\ IF "onMouseDown" \in listeners
          THEN Apply(onMouseDown(Cur, [clientX |-> pt[1], clientY |-> pt[2],
                                       interactive |-> pt \in Buttons, buttons |-> 1],
                                 seed))
          ELSE Apply(Cur)
  /\ events < MaxEvents
  /\ events' = events + 1
  /\ UNCHANGED <<pageVars, found, options, dataset, win, hidden, stopCalls, resumed>>

\* the pointer moves to pt; the event reports the buttons really held
MouseMove ==
  /\ \E pt \in Points :
       /\ still' = (still /\ pt = <<mouse.x, mouse.y>>)
       /\ IF "onMouseMove" \in listeners
          THEN Apply(onMouseMove(Cur, [clientX |-> pt[1], clientY |-> pt[2],
                                       interactive |-> FALSE,
                                       buttons |-> IF gesture = "none" THEN 0 ELSE 1]))
          ELSE Apply(Cur)
  /\ events < MaxEvents
  /\ events' = events + 1
  /\ UNCHANGED <<pageVars, found, options, dataset, win, hidden, gesture, stopCalls, resumed>>

\* the button is released over the window
MouseUp ==
  /\ gesture # "none"
  /\ gesture' = "none"
  /\ IF "onMouseUp" \in listeners THEN Apply(onMouseUp(Cur)) ELSE Apply(Cur)
  /\ events < MaxEvents
  /\ events' = events + 1
  /\ UNCHANGED <<pageVars, found, options, dataset, win, hidden, stopCalls, still, resumed>>

\* the button is released where the window gets no mouseup (outside the
\* window, over a context menu)
MissedMouseUp ==
  /\ gesture # "none"
  /\ gesture' = "none"
  /\ Apply(Cur)
  /\ events < MaxEvents
  /\ events' = events + 1
  /\ UNCHANGED <<pageVars, found, options, dataset, win, hidden, stopCalls, still, resumed>>

MouseLeave ==
  /\ IF "onMouseLeave" \in listeners THEN Apply(onMouseLeave(Cur)) ELSE Apply(Cur)
  /\ still' = FALSE
  /\ events < MaxEvents
  /\ events' = events + 1
  /\ UNCHANGED <<pageVars, found, options, dataset, win, hidden, gesture, stopCalls, resumed>>

Blur ==
  /\ IF "onBlur" \in listeners THEN Apply(onBlur(Cur)) ELSE Apply(Cur)
  /\ events < MaxEvents
  /\ events' = events + 1
  /\ UNCHANGED <<pageVars, found, options, dataset, win, hidden, gesture, stopCalls, still, resumed>>

\* the page is hidden or shown again
VisibilityChange ==
  /\ ~hidden \/ time < MaxTime
  /\ hidden' = ~hidden
  /\ resumed' = IF hidden /\ "onVisibilityChange" \in listeners /\ Len(active) > 0
                THEN TRUE ELSE resumed
  /\ \E seed \in Seeds :
       IF "onVisibilityChange" \in listeners
       THEN Apply(onVisibilityChange(Cur, ~hidden, seed))
       ELSE Apply(Cur)
  /\ events < MaxEvents
  /\ events' = events + 1
  /\ UNCHANGED <<pageVars, found, options, dataset, win, gesture, stopCalls, still>>

\* the window is resized
Resize ==
  /\ \E w \in Viewports :
       /\ w # win
       /\ win' = w
       /\ IF "resizeCanvas" \in listeners THEN Apply(resizeCanvas(Cur, w)) ELSE Apply(Cur)
  /\ events < MaxEvents
  /\ events' = events + 1
  /\ UNCHANGED <<pageVars, found, options, dataset, hidden, gesture, stopCalls, still, resumed>>

\* the page calls stop() of the handle it got
Stop ==
  /\ stopCalls' = stopCalls + 1
  /\ IF found THEN Apply(stop(Cur)) ELSE Apply(inertStop(Cur))
  /\ events < MaxEvents
  /\ events' = events + 1
  /\ UNCHANGED <<pageVars, found, options, dataset, win, hidden, gesture, still, resumed>>

Next ==
  \/ Frame
  \/ MouseDown
  \/ MouseMove
  \/ MouseUp
  \/ MissedMouseUp
  \/ MouseLeave
  \/ Blur
  \/ VisibilityChange
  \/ Resize
  \/ Stop

Spec == Init /\ [][Next]_vars

SpecConfig == InitConfig /\ [][Next]_vars

SpecSurface == InitSurface /\ [][Next]_vars

(***************************************************************************)
(* The page around the canvas: the visitor uses the menu, the browser runs *)
(* the life cycle of the service worker, the page requests resources and   *)
(* the site is redeployed.                                                 *)
(***************************************************************************)
\* what the particle system owns
canvasVars == <<found, canvas, mouse, time, running, rafId, smooth, pool, active,
                pendingSpawns, listeners, rafQueue, rafCount, win, hidden, gesture,
                options, dataset, constructed, events, stopCalls, still, resumed>>

workerVars == <<worker, caches, server, fetched>>

\* a page without the particle canvas
InitSite ==
  /\ options = 0
  /\ dataset = 0
  /\ found = FALSE
  /\ Constructed
  /\ PageLoaded

\* the visitor clicks
Click ==
  /\ \E target \in ClickTargets : menu' = click(menu, target)
  /\ UNCHANGED <<canvasVars, variantVars, workerVars>>

\* the visitor presses a key
Keydown ==
  /\ \E key \in Keys : menu' = onDocumentKeydown(menu, key)
  /\ UNCHANGED <<canvasVars, variantVars, workerVars>>

\* the install event (lines 22-28); it succeeds when the network answers
\* every request of addAll
Install ==
  /\ worker = "parsed"
  /\ \E online \in BOOLEAN :
       IF online
       THEN worker' = "installed" /\ caches' = cacheAddAll(caches, CACHE_NAME, server)
       ELSE UNCHANGED <<worker, caches>>
  /\ UNCHANGED <<canvasVars, variantVars, menu, server, fetched>>

\* the activate event (lines 31-41)
Activate ==
  /\ worker = "installed"
  /\ worker' = "activated"
  /\ caches' = activate(caches)
  /\ UNCHANGED <<canvasVars, variantVars, menu, server, fetched>>

\* the page requests a resource; an active worker gets the fetch event, and
\* the browser goes to the network itself for what the worker does not handle
Fetch ==
  /\ \E method \in Methods, origin \in Origins, path \in Paths, outcome \in Outcomes :
       \E req \in {[method |-> method, origin |-> origin, path |-> path]} :
         IF worker = "activated" /\ intercepts(req)
         THEN \E r \in {respond(caches, req, outcome, server)} :
                /\ caches' = r.caches
                /\ fetched' = [intercepted |-> TRUE, request |-> req,
                               outcome |-> outcome,
                               network |-> networkResponse(req, outcome, server),
                               response |-> r.response, cacheRead |-> r.cacheRead,
                               cached |-> cachesMatch(caches, <<origin, path>>)]
         ELSE /\ caches' = caches
              /\ fetched' = [intercepted |-> FALSE, request |-> req,
                             outcome |-> outcome,
                             network |-> networkResponse(req, outcome, server),
                             response |-> networkResponse(req, outcome, server),
                             cacheRead |-> FALSE,
                             cached |-> cachesMatch(caches, <<origin, path>>)]
  /\ UNCHANGED <<canvasVars, variantVars, menu, worker, server>>

\* a new version of the site is deployed
Deploy ==
  /\ server < MaxVersion
  /\ server' = server + 1
  /\ UNCHANGED <<canvasVars, variantVars, menu, worker, caches, fetched>>

NextSite ==
  \/ Click
  \/ Keydown
  \/ Install
  \/ Activate
  \/ Fetch
  \/ Deploy

SpecSite == InitSite /\ [][NextSite]_vars

\* the page is loaded in the tab the visitor looks at or in a background tab
\* (a link opened in a new tab): document.hidden is true when the script runs
InitBackground ==
  /\ options = 0
  /\ dataset = 0
  /\ \E hid \in BOOLEAN : ConstructedIn(InitialViewport, hid)
  /\ PageLoaded

SpecBackground == InitBackground /\ [][Next]_vars

(***************************************************************************)
(* Frames without end.  The counters `time` and the ids returned by        *)
(* requestAnimationFrame grow without bound in the source; the code reads  *)
(* only the parity of time (line 459) and compares ids for identity (lines *)
(* 513, 534).  For the runs in which frames never stop, the counters are   *)
(* folded: time steps back by 2 when it reaches MaxTime and the pending    *)
(* callback is numbered 1 again.                                           *)
(***************************************************************************)
Folded(s) ==
  [s EXCEPT !.time = IF @ >= MaxTime THEN @ - 2 ELSE @,
            !.rafCount = IF s.rafQueue = {s.rafId} THEN 1 ELSE @,
            !.rafId = IF s.rafQueue = {s.rafId} THEN 1 ELSE @,
            !.rafQueue = IF s.rafQueue = {s.rafId} THEN {1} ELSE @]

\* the browser runs a requested frame callback, however many have run
FrameLive ==
  /\ \E id \in rafQueue, seed \in Seeds :
       \E s \in {Folded(animate([Cur EXCEPT !.rafQueue = @ \ {id}], seed))} : Apply(s)
  /\ UNCHANGED <<pageVars, found, options, dataset, win, hidden, gesture, events, stopCalls,
                 still, resumed>>

\* the runs without end take every event but the cursor's moves: a move only
\* feeds the smoothed cursor velocity (lines 433-439), which pushes particles
\* and never touches their life
NextLive ==
  \/ FrameLive
  \/ MouseDown
  \/ MouseUp
  \/ MissedMouseUp
  \/ MouseLeave
  \/ Blur
  \/ VisibilityChange
  \/ Resize
  \/ Stop

\* a browser runs every requested frame callback of a visible page: a
\* callback that stays requested is run
\* FrameLive as the clock shows it: while running, a step changes time exactly
\* when it is a frame (line 432), and a frame can run whenever a callback is
\* pending (FrameStepsAreClockSteps below states both)
FrameTick == running /\ rafQueue # {} /\ time' \in 0 .. MaxTime

\* the browser runs a requested callback sooner or later while the page lives
SpecLive == Init /\ [][NextLive]_vars /\ WF_time(FrameTick)

\* a step of NextLive that is no event is a frame; of the steps taken while
\* running, the frames and only the frames move the clock
IsEvent == events' # events \/ hidden' # hidden \/ stopCalls' # stopCalls
FrameStepsAreClockSteps ==
  [][/\ ~IsEvent => rafQueue # {}
     /\ running => (time' # time <=> ~IsEvent)]_vars

\* entries of the queue of pending spawns as line 410 pushes them: a point of
\* the canvas and a count of 1 or 2
QueuedSpawns(n) ==
  [i \in 1 .. n |-> [x |-> 20 * FP, y |-> 20 * FP, count |-> 1 + (i % maxCollisionSpawns)]]

\* queue lengths the frames start from: above the cap of line 452 (the frames
\* shorten the queue from there)
Backlogs == {MaxQueue}

\* an instance whose collision passes have queued spawns (lines 405-414) that
\* the frames have not consumed yet
InitQueue ==
  /\ options = 0
  /\ dataset = 0
  /\ \E n \in Backlogs : ConstructedWith(InitialViewport, FALSE, QueuedSpawns(n))
  /\ PageLoaded

SpecQueue == InitQueue /\ [][Next]_vars

(***************************************************************************)
(* A page that loads one of the earlier particle systems: the visitor      *)
(* clicks and holds the button, the browser runs the frames.               *)
(***************************************************************************)
InitVariants ==
  /\ options = 0
  /\ dataset = 0
  /\ found = FALSE
  /\ Constructed
  /\ SiteLoaded
  /\ variant \in Variants
  /\ legacy = LegacyStart
  /\ drawn = NothingDrawn
  /\ scene = NoScene
  /\ sceneEvents = 0

siteVars == <<menu, worker, caches, server, fetched>>

\* mousedown (scripts.js lines 239-243 and 581-583, part_010 lines 336-346)
LegacyMouseDown ==
  /\ ~legacy.isDown
  /\ legacy' = [legacy EXCEPT !.isDown = TRUE]
  /\ UNCHANGED <<canvasVars, siteVars, variant, drawn, scene, sceneEvents>>

\* mouseup (scripts.js lines 245-247 and 585-587); in part_010 a quick click
\* creates a spark burst (lines 348-358)
LegacyMouseUp ==
  /\ legacy.isDown
  /\ Len(legacy.particles) < MaxBacklog
  /\ \E quick \in BOOLEAN, count \in SparkCounts :
       legacy' = [(IF variant = "part_010" /\ quick
                   THEN pushParticles(variant, legacy, count) ELSE legacy)
                    EXCEPT !.isDown = FALSE]
  /\ UNCHANGED <<canvasVars, siteVars, variant, drawn, scene, sceneEvents>>

\* click listener of the document (scripts.js lines 228-230)
LegacyClick ==
  /\ variant = "scripts.js:206"
  /\ Len(legacy.particles) < MaxBacklog
  /\ \E burstCount \in BurstCounts :
       legacy' = pushParticles(variant, legacy, burstCount)
  /\ UNCHANGED <<canvasVars, siteVars, variant, drawn, scene, sceneEvents>>

\* one frame: animate (scripts.js lines 253-286 and 596-636, part_010 lines
\* 270-332)
LegacyFrame ==
  /\ drawn.frames < MaxFrames
  /\ \E trail \in TrailCounts, dust \in DustCounts :
       \E s \in {spawnStage(variant, legacy, trail, dust)} :
         /\ legacy' = renumbered(updateAndDraw(variant, evict(variant, s),
                                               Len(evict(variant, s).particles)))
         /\ drawn' = [before |-> s.particles, kept |-> evict(variant, s).particles,
                      frames |-> drawn.frames + 1]
  /\ UNCHANGED <<canvasVars, siteVars, variant, scene, sceneEvents>>

NextVariants ==
  \/ LegacyMouseDown
  \/ LegacyMouseUp
  \/ LegacyClick
  \/ LegacyFrame

SpecVariants == InitVariants /\ [][NextVariants]_vars

(***************************************************************************)
(* A page that loads part_010 or part_011: the visitor presses, moves and  *)
(* releases the button, the browser runs the frames.                       *)
(***************************************************************************)
InitScene ==
  /\ options = 0
  /\ dataset = 0
  /\ found = FALSE
  /\ Constructed
  /\ SiteLoaded
  /\ variant \in Scenes
  /\ legacy = LegacyStart
  /\ drawn = NothingDrawn
  /\ scene = SceneStart(InitialViewport)
  /\ sceneEvents = 0

\* mousedown at pt
SceneMouseDown ==
  /\ ~scene.mouse.isDown
  /\ sceneEvents < MaxSceneEvents
  /\ sceneEvents' = sceneEvents + 1
  /\ \E pt \in ScenePresses, seed \in Seeds :
       scene' = IF variant = "part_010" THEN dwellOnMouseDown(scene, pt)
                ELSE elegantOnMouseDown(scene, pt, seed)
  /\ UNCHANGED <<canvasVars, siteVars, variant, legacy, drawn>>

\* mouseup, a short or a long time after the mousedown
SceneMouseUp ==
  /\ scene.mouse.isDown
  /\ \E quick \in BOOLEAN, seed \in Seeds :
       scene' = IF variant = "part_010" THEN dwellOnMouseUp(scene, quick, seed)
                ELSE elegantOnMouseUp(scene)
  /\ UNCHANGED <<canvasVars, siteVars, variant, legacy, drawn, sceneEvents>>

\* the cursor moves to pt
SceneMouseMove ==
  /\ sceneEvents < MaxSceneEvents
  /\ sceneEvents' = sceneEvents + 1
  /\ \E pt \in SceneMoves :
       /\ pt # <<scene.mouse.x, scene.mouse.y>>
       /\ scene' = sceneOnMouseMove(scene, pt)
  /\ UNCHANGED <<canvasVars, siteVars, variant, legacy, drawn>>

\* the browser runs the frame callback
SceneFrame ==
  /\ scene.time < MaxFrames
  /\ \E seed \in Seeds :
       scene' = IF variant = "part_010" THEN dwellAnimate(scene, seed)
                ELSE elegantAnimate(scene, seed)
  /\ UNCHANGED <<canvasVars, siteVars, variant, legacy, drawn, sceneEvents>>

NextScene ==
  \/ SceneMouseDown
  \/ SceneMouseUp
  \/ SceneMouseMove
  \/ SceneFrame

SpecScene == InitScene /\ [][NextScene]_vars

(***************************************************************************)
(* Properties.                                                             *)
(***************************************************************************)
\* the objects referenced by an array
Ids(seq) == {seq[i].id : i \in 1 .. Len(seq)}

\* the closure state, which only the code changes
simVars == <<canvas, mouse, time, running, rafId, smooth, pool, active,
             pendingSpawns, listeners, rafQueue, rafCount, constructed>>

\* C1: after every event and every frame, in any interleaving,
\* active.length <= config.maxParticles.
C1_BoundedPopulation == Len(active) <= maxParticles

\* the cap is reached: the spawn that filled it was cut short
C1_Witness == Len(active) = maxParticles /\ constructed = maxParticles

\* C2: once stop() has returned, the state it leaves has no pending frame
\* callback, no listener, and empty active and pool arrays, and no later
\* event or callback changes any simulation state.
C2_StopIsFinal ==
  [][ /\ (found /\ stopCalls' > 0) =>
           (rafQueue' = {} /\ listeners' = {} /\ active' = <<>> /\ pool' = <<>>)
      /\ (found /\ stopCalls > 0) => UNCHANGED simVars ]_vars

\* particles existed, stop() was called, and a resize arrived afterwards
\* (the canvas no longer follows the window)
C2_Witness ==
  found /\ stopCalls > 0 /\ constructed > 0 /\ canvas.width # win[1]

\* C3: while the page is hidden no frame executes (time does not advance);
\* once it is visible again and stop() was not called, the loop runs again
\* (running, with a frame callback pending).
C3_PausedWhileHidden ==
  [][ /\ (hidden /\ hidden') => time' = time
      /\ (found /\ ~hidden' /\ stopCalls' = 0) => (running' /\ rafQueue' # {}) ]_vars

\* the page is hidden while particles are alive, and the loop is paused
C3_Witness ==
  found /\ hidden /\ stopCalls = 0 /\ Len(active) > 0 /\ ~running /\ rafQueue = {}

\* C4: when the selector matches nothing, no listener is attached, no
\* frame is requested, and stop() changes nothing.
C4_InertHandle == ~found => (Cur = Blank /\ inertStop(Cur) = Cur)

\* no canvas, events were delivered and stop() of the inert handle was called
C4_Witness == ~found /\ stopCalls > 0 /\ gesture # "none" /\ hidden

\* C5: no particle is in both arrays, none appears twice in either, and
\* until stop() every particle constructed is in exactly one of the two.
C5_PoolConservation ==
  /\ Cardinality(Ids(active)) = Len(active)
  /\ Cardinality(Ids(pool)) = Len(pool)
  /\ Ids(active) \cap Ids(pool) = {}
  /\ stopCalls = 0 =>
       /\ Ids(active) \cup Ids(pool) = 1 .. constructed
       /\ Len(active) + Len(pool) = constructed

\* a retired particle has been reused while older ones are still alive:
\* objects enter the active array in the order of their construction, so
\* an older object behind a younger one has been through the pool
C5_Witness ==
  /\ stopCalls = 0
  /\ \E i, j \in 1 .. Len(active) : i < j /\ active[i].id > active[j].id

\* C6: every particle in the active array has active = true and
\* 0 < life <= 1; every particle in the pool has active = false.
C6_LifeRange ==
  /\ \A i \in 1 .. Len(active) :
       active[i].active /\ 0 < active[i].life /\ active[i].life <= LifeOne
  /\ \A i \in 1 .. Len(pool) : ~pool[i].active

\* an aged particle is alive while another one has been retired
C6_Witness ==
  /\ Len(pool) > 0
  /\ \E i \in 1 .. Len(active) : active[i].life < LifeOne

\* p lies within [margin, dimension - margin] on both axes of canvas c
Contained(p, c) ==
  LET margin == Scale(p.size, 5, 10)
  IN /\ margin <= p.x /\ p.x <= c.width * FP - margin
     /\ margin <= p.y /\ p.y <= c.height * FP - margin

\* C7 as stated: after every frame and for every canvas size, each
\* particle still active lies within [margin, dimension - margin].
C7_ContainedAnyCanvas ==
  [][ time' # time => \A i \in 1 .. Len(active') : Contained(active'[i], canvas') ]_vars

\* C7 amended: the same for every canvas at least as wide and as high as
\* the particle (w >= size and h >= size).
C7_ContainedRoomyCanvas ==
  [][ time' # time =>
        \A i \in 1 .. Len(active') :
          (canvas'.width * FP >= active'[i].size /\ canvas'.height * FP >= active'[i].size)
            => Contained(active'[i], canvas') ]_vars

\* an updated particle sits exactly on the right wall of a roomy canvas
C7_Witness ==
  \E i \in 1 .. Len(active) :
    /\ active[i].life < LifeOne
    /\ canvas.width * FP >= active[i].size
    /\ canvas.height * FP >= active[i].size
    /\ active[i].x = canvas.width * FP - Scale(active[i].size, 5, 10)

\* C8: a second stop() changes nothing: the state stays as the first call
\* left it (not running, no pending frame, no listener, active and pool
\* empty).
C8_StopIdempotent ==
  [][ (stopCalls > 0 /\ stopCalls' = stopCalls + 1) =>
        /\ UNCHANGED simVars
        /\ ~running' /\ rafQueue' = {} /\ listeners' = {}
        /\ active' = <<>> /\ pool' = <<>> ]_vars

\* stop() was called twice on a simulation that had spawned particles
C8_Witness == found /\ stopCalls = 2 /\ constructed > 0

\* C9: during a gesture that started on an interactive element no particle
\* is spawned: neither the mousedown nor a later frame adds one to the
\* active array.
C9_InteractiveNoSpawn ==
  [][ gesture' = "interactive" => Ids(active') \subseteq Ids(active) ]_vars

\* C10: a mousemove that reports no button pressed while mouse.isDown is
\* true leaves mouse.isDown false.
C10_MissedMouseUpReset ==
  [][ (MouseMove /\ gesture = "none" /\ mouse.isDown) => ~mouse'.isDown ]_vars

\* C11: after each of mouseleave, window blur and visibilitychange-to-hidden
\* (delivered while the listeners are attached), mouse.isDown is false and
\* the tracked position (mouse.x, mouse.y) is the off-canvas sentinel.
C11_PointerResetOnLeaveBlurHidden ==
  [][ ( \/ (MouseLeave /\ "onMouseLeave" \in listeners)
        \/ (Blur /\ "onBlur" \in listeners)
        \/ (VisibilityChange /\ ~hidden /\ "onVisibilityChange" \in listeners) )
        => (~mouse'.isDown /\ mouse'.x = OffCanvas /\ mouse'.y = OffCanvas) ]_vars

\* the number of particles the spawns of a frame starting now would add to
\* the active array (drag trail and pending collision spawns)
SpawnedByFrame(seed) == Len(spawnPhase(Cur, seed).active) - Len(active)

\* a mousedown delivered with room for a whole burst adds exactly
\* clickSpawnCount particles, each within spawnRadius of the press
BurstAtPress ==
  (gesture = "none" /\ gesture' # "none" /\ "onMouseDown" \in listeners
     /\ Len(active) + clickSpawnCount <= maxParticles)
    => /\ Len(active') = Len(active) + clickSpawnCount
       /\ \A i \in Len(active) + 1 .. Len(active') :
            Hypot(active'[i].x - mouse'.x * FP, active'[i].y - mouse'.y * FP)
              <= spawnRadius

TrailByFrame(seed) ==
  Len(trySpawnOnDrag(smoothVelocity(tick(requestFrame(Cur))), seed, 0).active)
    - Len(active)

\* whole pixels between the pointer and the last spawn point
DragLength ==
  Sqrt((mouse.x - mouse.lastSpawnX) * (mouse.x - mouse.lastSpawnX)
         + (mouse.y - mouse.lastSpawnY) * (mouse.y - mouse.lastSpawnY))

\* C13: when the whole movement of a drag arrives between two consecutive
\* frames (the pointer was at the last spawn point when the previous frame
\* or the mousedown ran, and is held L away from it now), the frame spawns
\* L divided by dragSpawnDistance trail particles (one for each whole
\* dragSpawnDistance travelled), capped by the room left under maxParticles.
C13_TrailCountIsLengthOverSpacing ==
  [][ (time' # time /\ running /\ mouse.isDown /\ mouse.x >= 0
         /\ mouse.prevX = mouse.lastSpawnX /\ mouse.prevY = mouse.lastSpawnY)
        => \A seed \in Seeds :
             TrailByFrame(seed) = Min(DragLength \div dragSpawnDistance,
                                      maxParticles - Len(active)) ]_vars

\* C14: the effective maxParticles of an instance is the call-time option
\* when one is passed, otherwise the canvas data attribute when present,
\* otherwise the built-in default; the population stays under it.
C14_ConfigPrecedence ==
  found =>
    /\ effectiveMaxParticles(options, dataset)
         = (IF options # 0 THEN options ELSE IF dataset # 0 THEN dataset ELSE maxParticles)
    /\ Len(active)
         <= (IF options # 0 THEN options ELSE IF dataset # 0 THEN dataset ELSE maxParticles)

\* the particles (position, velocity, life and all) that were active before
\* the step are at the same indices, untouched, after it
ParticlesKept ==
  /\ Len(active') >= Len(active)
  /\ \A i \in 1 .. Len(active) : active'[i] = active[i]

\* the step did to the particles what one run of animate does
OneOrdinaryFrame ==
  /\ time' = time + 1
  /\ Cardinality(rafQueue') = 1
  /\ \E seed \in Seeds :
       \E s \in {animate([Cur EXCEPT !.running = TRUE], seed)} :
          active' = s.active /\ pool' = s.pool /\ pendingSpawns' = s.pendingSpawns
  /\ \A i \in 1 .. Len(active) :
       IF AgedLife(active[i]) <= 0
       THEN active[i].id \notin Ids(active')
       ELSE \E j \in 1 .. Len(active') :
              /\ active'[j].id = active[i].id
              /\ active'[j].life = AgedLife(active[i])

\* C15: hiding the page and every event delivered while it is hidden leave
\* each active particle's position, velocity and life as they were (until
\* stop()), and the step that restores visibility applies exactly one
\* ordinary frame: time advances by one, each particle ages by one decay.
C15_PauseDoesNotAdvance ==
  [][ /\ (hidden' /\ stopCalls' = 0) => ParticlesKept
      /\ (hidden /\ ~hidden' /\ "onVisibilityChange" \in listeners) => OneOrdinaryFrame
    ]_vars

\* a pause entered with live particles has been resumed, and a particle
\* updated by a frame is alive
C15_Witness ==
  /\ resumed /\ ~hidden /\ stopCalls = 0
  /\ \E i \in 1 .. Len(active) : active[i].life < LifeOne

\* C16: while the page is hidden (running is false) no input event,
\* a mousedown included, adds a particle to the active array.
C16_NoSpawnWhileHidden ==
  [][ (hidden /\ hidden' /\ ~running) => Ids(active') \subseteq Ids(active) ]_vars

\* the number of times the object id is in the array
Occurrences(seq, id) == Cardinality({j \in 1 .. Len(seq) : seq[j].id = id})

\* C17: a frame either leaves a particle in the active array with a
\* strictly smaller, still positive life, or (its life having reached <= 0)
\* removes it from the active array and pushes it to the pool exactly once;
\* every particle a frame leaves in the active array has been aged, and
\* every pooled particle has life <= 0.
C17_LifeDecreasesRetireOnce ==
  [][ time' # time =>
        /\ \A i \in 1 .. Len(active) :
             \/ /\ Occurrences(active', active[i].id) = 1
                /\ Occurrences(pool', active[i].id) = 0
                /\ \A j \in 1 .. Len(active') :
                     active'[j].id = active[i].id
                       => (0 < active'[j].life /\ active'[j].life < active[i].life)
             \/ /\ Occurrences(active', active[i].id) = 0
                /\ Occurrences(pool', active[i].id) = 1
                /\ \A j \in 1 .. Len(pool') :
                     pool'[j].id = active[i].id => pool'[j].life <= 0
        /\ \A j \in 1 .. Len(active') : active'[j].life < LifeOne
        /\ \A j \in 1 .. Len(pool') : pool'[j].life <= 0 /\ ~pool'[j].active ]_vars

\* two particles have been retired while a third, aged one is still alive
C17_Witness ==
  /\ Len(pool) >= 2
  /\ \A j \in 1 .. Len(pool) : pool[j].life <= 0
  /\ \E i \in 1 .. Len(active) : 0 < active[i].life /\ active[i].life < LifeOne

\* C18: within each frame the steps run in the order aging, forces,
\* integration, boundary handling, pairwise collisions (render follows and
\* changes no state): the frame leaves the particles as the update of the
\* whole active set followed by the collision pass leaves them.
C18_StepOrder ==
  [][ time' # time =>
        \E seed \in Seeds :
          \E s \in {collideOnEvenFrames(
                      updateAll(savePrevious(
                        spawnPhase([Cur EXCEPT !.running = TRUE], seed))),
                      seed)} :
             active' = s.active /\ pool' = s.pool /\ pendingSpawns' = s.pendingSpawns
    ]_vars

\* the active array when the collision pass of a frame starting now begins
BeforePass(seed) == savePrevious(spawnPhase([Cur EXCEPT !.running = TRUE], seed))

\* a and b move toward each other along the line of their centres
Opposing(a, b) == (a.vx - b.vx) * (b.x - a.x) + (a.vy - b.vy) * (b.y - a.y) > 0

\* the centres of a and b are at least (a.size + b.size) * 0.55 apart
Apart(a, b) ==
  \/ Abs(b.x - a.x) >= Scale(a.size + b.size, 55, 100)
  \/ Abs(b.y - a.y) >= Scale(a.size + b.size, 55, 100)
  \/ (b.x - a.x) * (b.x - a.x) + (b.y - a.y) * (b.y - a.y)
       >= Scale(a.size + b.size, 55, 100) * Scale(a.size + b.size, 55, 100)

\* every pair that overlaps with opposing velocities in pre is apart in post
PassSeparates(pre, post) ==
  \A i, j \in 1 .. Len(pre) :
    (i < j /\ Overlapping(pre[i], pre[j]) /\ Opposing(pre[i], pre[j]))
      => Apart(post[i], post[j])

\* C19: in every frame that runs the collision pass, two cubes that overlap
\* with opposing velocities when the pass starts are at non-overlapping
\* positions (centre distance >= (a.size + b.size) * 0.55) when it ends.
C19_SeparatedAfterOnePass ==
  [][ (time' # time /\ time' % 2 = 0) =>
        \A seed \in Seeds :
          PassSeparates(BeforePass(seed).active,
                        handleCollisions(BeforePass(seed), seed, 100).active) ]_vars

\* the velocity of a relative to b along (nx, ny), in 1/(FP * FP) pixel
RelativeAlong(a, b, nx, ny) == (a.vx - b.vx) * nx + (a.vy - b.vy) * ny

\* the pair a, b was collided into c along the normal (nx, ny): the
\* relative normal velocity kept its sign and lost magnitude
DampedAlong(a, b, c, nx, ny) ==
  Abs(RelativeAlong(a, b, nx, ny)) >= VelocityStep * FP
    => /\ Abs(RelativeAlong(c.a, c.b, nx, ny)) < Abs(RelativeAlong(a, b, nx, ny))
       /\ (RelativeAlong(c.a, c.b, nx, ny) > 0) = (RelativeAlong(a, b, nx, ny) > 0)
       /\ RelativeAlong(c.a, c.b, nx, ny) # 0

DampedAt(a, b, dx, dy, dist) ==
  DampedAlong(a, b, Collide(a, b), Scale(dx, FP, dist), Scale(dy, FP, dist))

Damped(a, b) ==
  DampedAt(a, b, b.x - a.x, b.y - a.y,
           Sqrt((b.x - a.x) * (b.x - a.x) + (b.y - a.y) * (b.y - a.y)))

\* the loops of handleCollisions from the pair (i, j) on: every pair the
\* pass handles is damped by its momentum exchange
RECURSIVE PassDamps(_, _, _, _, _, _)
PassDamps(s, len, i, j, seed, k) ==
  IF i > len THEN TRUE
  ELSE IF j > len \/ ~s.active[i].active \/ s.active[i].type = "dust"
       THEN PassDamps(s, len, i + 1, i + 2, seed, k)
       ELSE /\ (s.active[j].active /\ s.active[j].type # "dust"
                  /\ Overlapping(s.active[i], s.active[j]))
                 => Damped(s.active[i], s.active[j])
            /\ PassDamps(collidePair(s, i, j, seed, k), len, i, j + 1, seed, k + 2)

C21_ZeroSurfaceInert ==
  (found /\ events = 0 /\ stopCalls = 0 /\ canvas.width = 0 /\ canvas.height = 0)
    => /\ listeners = {}
       /\ rafQueue = {}
       /\ stop(Cur) = Cur

\* the state of a frame starting now when its update loop begins
BeforeUpdate(seed) == collideOnEvenFrames(BeforePass(seed), seed)

\* the cursor moved to the off-canvas sentinel (lines 78-79, 500-501)
CursorAway(s) == [s EXCEPT !.mouse.x = OffCanvas, !.mouse.y = OffCanvas]

\* C24: in every frame in which mouse.isDown is true, Particle.update applies
\* no cursor repulsion and no momentum transfer: the frame leaves every
\* particle as the same frame leaves it with the cursor off-canvas during
\* the update loop.
C24_NoFieldWhileDown ==
  [][ (time' # time /\ mouse.isDown) =>
        \E seed \in Seeds :
          \E s \in {updateAll(CursorAway(BeforeUpdate(seed)))} :
             active' = s.active /\ pool' = s.pool
    ]_vars

\* the button is held over the canvas, a frame is due, and a live particle
\* is inside the radius of the field, which would push it were the button up
C24_Witness ==
  /\ mouse.isDown
  /\ mouse.x > 0
  /\ running
  /\ rafQueue # {}
  /\ time > 1
  /\ \E i \in 1 .. Len(active) :
       /\ active[i].life > LifeOne \div 2
       /\ CursorForce(active[i], [mouse EXCEPT !.isDown = FALSE]) # <<0, 0>>

\* the number of particles the pending collision spawns add to the active
\* array of s (lines 445-451)
AddedFromQueue(s, seed) ==
  Len(processPendingSpawns(s, seed, 40).active) - Len(s.active)

\* the same, counted in the frame that starts in the current state
CollisionSpawnedByFrame(seed) ==
  AddedFromQueue(trySpawnOnDrag(smoothVelocity(tick(requestFrame(Cur))), seed, 0),
                 seed)

\* C25: a collision-explosion particle is added to the active array only
\* while the pointer is down: a frame that runs with mouse.isDown false moves
\* no collision-spawned particle into the active array.
C25_ExplosionOnlyWhileDown ==
  [][ (time' # time /\ ~mouse.isDown) =>
        \A seed \in Seeds : CollisionSpawnedByFrame(seed) = 0 ]_vars

\* the speed at which update moves the particle p (lines 221-223): the
\* capped velocity plus what the cursor adds to it
IntegrationSpeed(p, m) ==
  Hypot(CappedVelocity(p)[1] + CursorForce(p, m)[1],
        CappedVelocity(p)[2] + CursorForce(p, m)[2])

\* every particle of s that update keeps alive is moved at a speed of at
\* most config.maxVelocity
MovedWithinCap(s) ==
  \A i \in 1 .. Len(s.active) :
     AgedLife(s.active[i]) > 0 => IntegrationSpeed(s.active[i], s.mouse) <= maxVelocity

\* C26: for every active particle and every frame, the velocity used in the
\* integration step of update has magnitude <= config.maxVelocity, whatever
\* cursor force, cursor momentum or collision impulse was applied before it.
C26_IntegrationWithinCap ==
  [][ time' # time =>
        \A seed \in Seeds : \A s \in {BeforeUpdate(seed)} : MovedWithinCap(s) ]_vars

\* the pointer is less than dragSpawnDistance away from the last spawn point
\* (lines 342-346)
NearLastSpawn ==
  (mouse.x - mouse.lastSpawnX) * (mouse.x - mouse.lastSpawnX)
    + (mouse.y - mouse.lastSpawnY) * (mouse.y - mouse.lastSpawnY)
    < dragSpawnDistance * dragSpawnDistance

\* C27: while the pointer is down and its distance from the last spawn point
\* is below dragSpawnDistance, trySpawnOnDrag adds no particle and leaves
\* lastSpawnX / lastSpawnY unchanged, in every frame, however many of them
\* run.
C27_NoTrailBelowSpacing ==
  [][ (time' # time /\ mouse.isDown /\ NearLastSpawn) =>
        /\ \A seed \in Seeds : TrailByFrame(seed) = 0
        /\ mouse'.lastSpawnX = mouse.lastSpawnX
        /\ mouse'.lastSpawnY = mouse.lastSpawnY ]_vars

\* the button is held, the pointer has moved away from the last spawn point
\* by less than dragSpawnDistance, and a frame has run since it moved
C27_Witness ==
  /\ mouse.isDown
  /\ NearLastSpawn
  /\ mouse.x # mouse.lastSpawnX
  /\ mouse.prevX = mouse.x
  /\ time > 1
  /\ Len(active) < maxParticles

\* update of p reaches the floor test (line 248) with y beyond h - margin:
\* p outlives the update, and after integration and the ceiling its y is
\* below the floor line; w, h in whole pixels
TouchesFloor(p, h, m) ==
  /\ AgedLife(p) > 0
  /\ \E q \in {Integrate(p, AgedLife(p), CappedVelocity(p), CursorForce(p, m))} :
        Ceiling(q, Scale(q.size, 5, 10)).y > h * FP - Scale(q.size, 5, 10)

\* update of p leaves grounded true exactly when p touched the floor in it,
\* and then p lies on the floor line
GroundedIffFloor(p, w, h, m) ==
  \E u \in {ParticleUpdate(p, w, h, m)} :
     /\ u.grounded <=> TouchesFloor(p, h, m)
     /\ u.grounded => u.y = h * FP - Scale(u.size, 5, 10)

\* C28 as stated: after Particle.update, grounded is true if and only if the
\* particle touched the floor in that update (its y was clamped to
\* h - margin); walls and ceiling alone never set it and the flag of the
\* previous frame does not persist.
C28_GroundedIffFloor ==
  [][ time' # time =>
        \A seed \in Seeds : \A s \in {BeforeUpdate(seed)} :
           \A i \in 1 .. Len(s.active) :
              GroundedIffFloor(s.active[i], s.canvas.width, s.canvas.height, s.mouse)
    ]_vars

\* C28 amended: the same for every update that keeps the particle alive; the
\* update that retires a particle returns before the boundary block and
\* leaves the flag as the previous frame set it.
C28_GroundedIffFloorWhileAlive ==
  [][ time' # time =>
        \A seed \in Seeds : \A s \in {BeforeUpdate(seed)} :
           \A i \in 1 .. Len(s.active) :
              IF AgedLife(s.active[i]) > 0
              THEN GroundedIffFloor(s.active[i], s.canvas.width, s.canvas.height,
                                    s.mouse)
              ELSE ParticleUpdate(s.active[i], s.canvas.width, s.canvas.height,
                                  s.mouse).grounded = s.active[i].grounded
    ]_vars

\* on a canvas with an area, a frame has kept alive one particle that it put
\* on the floor line and another that it left in the air
C28_Witness ==
  /\ time > 1
  /\ canvas.height > 0
  /\ \E i \in 1 .. Len(active) :
       /\ ~active[i].grounded
       /\ active[i].y < canvas.height * FP - Scale(active[i].size, 5, 10)
  /\ \E i \in 1 .. Len(active) :
       /\ active[i].grounded
       /\ active[i].y = canvas.height * FP - Scale(active[i].size, 5, 10)

\* the j-th particle a handler added to the active array, which held n
\* particles before
Added(n, j) == active'[n + j]

\* C29: getParticle constructs a new Particle only when the pool is empty;
\* when the pool is non-empty it removes and re-initializes the most recently
\* retired particle (the last of the pool), so that pool.length decreases by
\* one and nothing is allocated.  Seen on a mousedown, whose burst calls
\* getParticle once for each particle it adds: the burst takes the pooled
\* particles from the end of the pool, last first, constructs only what the
\* pool cannot give, and every particle it adds is initialized.
C29_PoolReuse ==
  [][ (gesture = "none" /\ gesture' # "none" /\ "onMouseDown" \in listeners) =>
        \E n \in {Len(active') - Len(active)} :
          /\ n >= 0
          /\ Len(pool') = Len(pool) - Min(n, Len(pool))
          /\ pool' = SubSeq(pool, 1, Len(pool'))
          /\ constructed' = constructed + n - Min(n, Len(pool))
          /\ \A j \in 1 .. n :
               /\ Added(Len(active), j).life = LifeOne
               /\ Added(Len(active), j).active
               /\ ~Added(Len(active), j).grounded
               /\ Added(Len(active), j).id =
                    IF j <= Len(pool) THEN pool[Len(pool) - j + 1].id
                    ELSE constructed + j - Len(pool)
    ]_vars

\* the particle p has just been initialized although a younger object has
\* already aged: p has been through the pool
Reborn(p) ==
  /\ p.life = LifeOne
  /\ \/ \E i \in 1 .. Len(active) : active[i].life < LifeOne /\ active[i].id > p.id
     \/ \E i \in 1 .. Len(pool) : pool[i].id > p.id

\* a burst has just reused two pooled particles, the later retired first
C29_Witness ==
  /\ gesture # "none"
  /\ mouse.isDown
  /\ \E i \in 1 .. Len(active) - 1 :
       /\ Reborn(active[i])
       /\ Reborn(active[i + 1])

\* C23: from the closed state, after any sequence of menu-button clicks,
\* menu-link clicks, Escape presses and outside clicks, aria-expanded of the
\* button is 'true' exactly when the list has the class 'active' and exactly
\* when aria-hidden of the list is 'false'.
C23_MenuAttributesAgree ==
  /\ (menu.ariaExpanded = "true") <=> menu.active
  /\ menu.active <=> (menu.ariaHidden = "false")

\* the menu is open: a click on the button saved the focus, focused the first
\* link and trapped the focus in the list
C23_Witness ==
  /\ menu.active
  /\ menu.ariaExpanded = "true"
  /\ menu.lastFocus = "menuBtn"
  /\ menu.focus = "link"
  /\ menu.traps = 1

\* C22: for every request the fetch handler handles (GET, URL starting with
\* the worker's origin), the response returned is the network's response
\* whenever the network fetch succeeds, and the caches are searched only
\* when the network fetch fails.
C22_NetworkFirst ==
  fetched.intercepted =>
    /\ fetched.outcome # "offline" =>
         (fetched.response = fetched.network /\ ~fetched.cacheRead)
    /\ fetched.cacheRead => fetched.outcome = "offline"
    /\ fetched.outcome = "offline" => fetched.response = fetched.cached

\* the network answered a handled request whose URL the cache held with the
\* body of an older version of the site
C22_Witness ==
  /\ fetched.intercepted
  /\ fetched.outcome = "ok"
  /\ fetched.cached # NoResponse
  /\ fetched.cached.body < fetched.response.body
  /\ cachesMatch(caches, <<fetched.request.origin, fetched.request.path>>)
       = fetched.response

\* the particles of the array are in the order they were spawned
OldestFirst(seq) ==
  \A i, j \in 1 .. Len(seq) : i < j => seq[i].born < seq[j].born

\* C30: in the variants that cap by eviction (part_010 and both definitions
\* of scripts.js), whenever a frame updates and draws particles the array
\* holds at most the configured maximum, after any number of spawn events
\* since the previous frame, and the particles discarded to reach the cap
\* are the oldest ones (the front of the array) while the newest are kept.
C30_EvictionKeepsNewest ==
  /\ Len(drawn.kept) <= MAX_PARTICLES
  /\ Len(drawn.kept) = Min(Len(drawn.before), MAX_PARTICLES)
  /\ drawn.kept = SubSeq(drawn.before, Len(drawn.before) - Len(drawn.kept) + 1,
                         Len(drawn.before))
  /\ OldestFirst(drawn.before)

\* a frame found more particles than the cap after several spawn events and
\* discarded some of them
C30_Witness ==
  /\ Len(drawn.before) > MAX_PARTICLES + 5
  /\ Len(drawn.kept) = MAX_PARTICLES
  /\ drawn.kept[1].born > drawn.before[1].born

\* C34: when the activate handler has done its work no cache with a name
\* other than CACHE_NAME exists, and the cache named CACHE_NAME is still
\* there with the entries it had.
C34_ActivateCleansUp ==
  [][(worker = "installed" /\ worker' = "activated")
       => /\ DOMAIN caches' \subseteq {CACHE_NAME}
          /\ CACHE_NAME \in DOMAIN caches
               => /\ CACHE_NAME \in DOMAIN caches'
                  /\ caches'[CACHE_NAME] = caches[CACHE_NAME]]_vars

\* the worker is active, the cache of the earlier worker is gone and the
\* cache that install filled is there
C34_Witness ==
  /\ worker = "activated"
  /\ OldCache \notin DOMAIN caches
  /\ CACHE_NAME \in DOMAIN caches
  /\ <<Origin, "/index.html">> \in DOMAIN caches[CACHE_NAME]

\* C35: between initialization and stop() at most one frame callback is
\* pending at any time: exactly one while the page is visible, none while it
\* is hidden.
C35_OnePendingFrame ==
  (found /\ stopCalls = 0)
    => /\ Cardinality(rafQueue) <= 1
       /\ ~hidden => Cardinality(rafQueue) = 1
       /\ hidden => rafQueue = {}

\* C36: the number of Particle objects ever constructed by one instance never
\* exceeds config.maxParticles, whatever the events and frames, and so
\* active.length + pool.length <= config.maxParticles at all times.
C36_ConstructedWithinCap ==
  /\ constructed <= effectiveMaxParticles(options, dataset)
  /\ Len(active) + Len(pool) <= effectiveMaxParticles(options, dataset)

\* maxParticles objects have been constructed, some of them have been retired
\* to the pool and the others are still on the canvas
C36_Witness ==
  /\ constructed = maxParticles
  /\ Len(pool) > 0
  /\ Len(active) > 0
  /\ Len(active) + Len(pool) = maxParticles

\* the frame that starts in the current state when it reaches the loop of the
\* pending spawns (lines 427-443)
BeforeQueue(seed) ==
  trySpawnOnDrag(smoothVelocity(tick(requestFrame([Cur EXCEPT !.running = TRUE]))),
                 seed, 0)

\* the frame took the queue of s through the loop of lines 446-451 and the
\* cap of line 452: the loop consumed at most 3 entries, at most 5 entries
\* were left after the cap, and the step ended as the rest of animate ends
QueueStep(s, seed) ==
  \E loop \in {pendingSpawnsLoop(s, 0, seed, 40)} :
    /\ Len(s.pendingSpawns) - Len(loop.pendingSpawns) <= 3
    /\ Len(capQueue(loop).pendingSpawns) <= 5
    /\ \E t \in {updateAll(collideOnEvenFrames(savePrevious(capQueue(loop)), seed))} :
         /\ active' = t.active
         /\ pool' = t.pool
         /\ pendingSpawns' = t.pendingSpawns
    /\ time' % 2 = 1 => Len(pendingSpawns') <= 5

\* C37: pendingSpawns.length never exceeds config.maxParticles, it is at most
\* 5 right after the pending-spawn processing step of every frame, and a
\* frame consumes at most 3 entries.
C37_PendingQueueBounded ==
  [][ /\ Len(pendingSpawns) <= maxParticles
      /\ Len(pendingSpawns') <= maxParticles
      /\ time' # time => \E seed \in Seeds : QueueStep(BeforeQueue(seed), seed)
    ]_vars

\* a frame started with more than 5 queued spawns and a full canvas: the loop
\* consumed nothing and the cap cut the queue to 5
C37_Witness ==
  /\ time = 2
  /\ Len(pendingSpawns) = 5
  /\ Len(active) = maxParticles

\* the inner loop of handleCollisions handles the pair (i, j) of s
\* (lines 369, 373, 380)
Handled(s, i, j) ==
  /\ s.active[i].active /\ s.active[i].type # "dust"
  /\ s.active[j].active /\ s.active[j].type # "dust"
  /\ Overlapping(s.active[i], s.active[j])

\* how far the separation moved a particle from p to q
Displacement(p, q) == Abs(q.x - p.x) + Abs(q.y - p.y)

\* the pair a, b was collided into c: the heavier one was moved less
HeavierMovesLess(a, b, c) ==
  /\ a.mass > b.mass => Displacement(a, c.a) < Displacement(b, c.b)
  /\ b.mass > a.mass => Displacement(b, c.b) < Displacement(a, c.a)

\* the loops of handleCollisions from the pair (i, j) on: in every pair the
\* pass handles the heavier particle is moved less
RECURSIVE PassWeighsMasses(_, _, _, _, _, _)
PassWeighsMasses(s, len, i, j, seed, k) ==
  IF i > len THEN TRUE
  ELSE IF j > len \/ ~s.active[i].active \/ s.active[i].type = "dust"
       THEN PassWeighsMasses(s, len, i + 1, i + 2, seed, k)
       ELSE /\ Handled(s, i, j)
                 => HeavierMovesLess(s.active[i], s.active[j],
                                     Collide(s.active[i], s.active[j]))
            /\ PassWeighsMasses(collidePair(s, i, j, seed, k), len, i, j + 1, seed, k + 2)

\* C32: in handleCollisions the positional separation of an overlapping pair
\* depends on the particles' masses: when the two masses differ, the heavier
\* particle is displaced less than the lighter one.
C32_SeparationByMass ==
  [][ (time' # time /\ time' % 2 = 0) =>
        \A seed \in Seeds :
          \A s \in {BeforePass(seed)} :
             PassWeighsMasses(s, Len(s.active), 1, 2, seed, 100)
    ]_vars

\* the pair (i, j) of s became the pair of t: the summed velocity is the same
\* and no other particle changed
PairSumKept(s, t, i, j) ==
  /\ t.active[i].vx + t.active[j].vx = s.active[i].vx + s.active[j].vx
  /\ t.active[i].vy + t.active[j].vy = s.active[i].vy + s.active[j].vy
  /\ Len(t.active) = Len(s.active)
  /\ \A n \in 1 .. Len(s.active) : n \notin {i, j} => t.active[n] = s.active[n]

\* the loops of handleCollisions from the pair (i, j) on: every pair the pass
\* handles keeps its summed velocity, and a step that handles no pair changes
\* no particle
RECURSIVE PassConserves(_, _, _, _, _, _)
PassConserves(s, len, i, j, seed, k) ==
  IF i > len THEN TRUE
  ELSE IF j > len \/ ~s.active[i].active \/ s.active[i].type = "dust"
       THEN PassConserves(s, len, i + 1, i + 2, seed, k)
       ELSE /\ IF Handled(s, i, j)
               THEN PairSumKept(s, collidePair(s, i, j, seed, k), i, j)
               ELSE collidePair(s, i, j, seed, k).active = s.active
            /\ PassConserves(collidePair(s, i, j, seed, k), len, i, j + 1, seed, k + 2)

\* C39: the momentum exchange of handleCollisions preserves the summed
\* velocity of every handled pair (a.vx + b.vx and a.vy + b.vy), and
\* particles that are not part of an overlapping pair keep position and
\* velocity.
C39_PairMomentumKept ==
  [][ (time' # time /\ time' % 2 = 0) =>
        \A seed \in Seeds :
          \A s \in {BeforePass(seed)} :
             /\ PassConserves(s, Len(s.active), 1, 2, seed, 100)
             /\ (\A i, j \in 1 .. Len(s.active) : i < j => ~Handled(s, i, j))
                  => handleCollisions(s, seed, 100).active = s.active
    ]_vars

\* the collision pass of the frame that just ran (an even frame, the button
\* held) exchanged momentum in a pair with an impulse above 0.15, which is why
\* a spawn is queued, and at least two particles are still on the canvas
C39_Witness ==
  /\ time % 2 = 0
  /\ mouse.isDown
  /\ Len(pendingSpawns) > 0
  /\ Len(active) >= 2

\* the particle p lies within the canvas of w x h pixels by its size
WithinBySize(p, w, h) ==
  /\ p.size <= p.x /\ p.x <= w * FP - p.size
  /\ p.size <= p.y /\ p.y <= h * FP - p.size

\* C31: in the dwell-time variant (part_010) each particle still active after
\* Particle.update has size <= x <= w - size and size <= y <= h - size.
C31_DwellContained ==
  [][ (variant = "part_010" /\ scene'.time # scene.time) =>
        \A i \in 1 .. Len(scene'.active) :
           WithinBySize(scene'.active[i], scene'.w, scene'.h) ]_vars

\* the frame of part_011 that starts in the current state when it reaches
\* handleCollisions (lines 387-410)
BeforeElegantPass(seed) ==
  savePrevious(elegantTrySpawnOnDrag(elegantSmooth([scene EXCEPT !.time = @ + 1]), seed))

\* the particles of the array before are the particles of the array after,
\* each with the size it had
SameSizes(before, after) ==
  /\ Len(after) = Len(before)
  /\ \A i \in 1 .. Len(before) :
       after[i].id = before[i].id /\ after[i].size = before[i].size

\* C33: in the elegant variant (part_011) the size of every particle lies in
\* [config.minSize, config.maxSize] from spawn until retirement, and no frame
\* step and no collision changes it.
C33_ElegantSizeFixed ==
  [][ variant = "part_011" =>
        /\ \A i \in 1 .. Len(scene'.active) :
             /\ minSize <= scene'.active[i].size
             /\ scene'.active[i].size <= maxSize
        /\ \A i \in 1 .. Len(scene.active), j \in 1 .. Len(scene'.active) :
             scene'.active[j].id = scene.active[i].id
               => scene'.active[j].size = scene.active[i].size
        /\ scene'.time # scene.time =>
             \A seed \in Seeds :
               \A s \in {BeforeElegantPass(seed)} :
                  SameSizes(s.active, elegantHandleCollisions(s).active)
    ]_vars

\* part_011 after some frames: a particle has been retired to the pool, and
\* a particle that the frames have updated is on the canvas next to a second
\* one, with a size strictly between the two limits
C33_Witness ==
  /\ variant = "part_011"
  /\ Len(scene.pool) > 0
  /\ Len(scene.active) >= 2
  /\ \E i \in 1 .. Len(scene.active) :
       /\ scene.active[i].life < LifeOne
       /\ scene.active[i].size > minSize
       /\ scene.active[i].size < maxSize

\* C38: while the page stays visible and stop() is not called, every particle
\* placed in the active array is eventually removed from it and returned to
\* the pool, whatever input events occur in between.
C38_EveryParticleRetires ==
  \A id \in 1 .. maxParticles :
    (id \in Ids(active))
      ~> ((id \notin Ids(active) /\ id \in Ids(pool)) \/ hidden \/ stopCalls > 0)

\* after the last event, on a visible page that was never stopped, frames
\* have retired particles to the pool while others are still on the canvas
C38_Witness ==
  /\ found /\ ~hidden /\ stopCalls = 0
  /\ Len(pool) > 0
  /\ Len(active) > 0
  /\ events = MaxEvents
  /\ time < MaxTime
====
